---------------------------- MODULE Spec2Model ----------------------------
(***************************************************************************)
(* A model of the micromouse navigation code of this repository:           *)
(*   - src/mouse/mouse_gpt.py : Maze, flood fill, planner and handle_post  *)
(*   - src/app.py             : MicroMouseController                       *)
(*   - src/mouse/mouse.py     : the token helpers of the earlier controller*)
(* and of the palindrome-by-deletion optimizer it is bundled with:         *)
(*   - src/palindrome/palindrome.py : smallest_pal_after_k_deletions       *)
(* Python's Optional[bool] wall state is written "wall" (True), "open"     *)
(* (False) and "unknown" (None).  Facings of mouse_gpt are 0=N,1=E,2=S,3=W.*)
(***************************************************************************)
EXTENDS Integers, Sequences, FiniteSets, TLC

VARIABLES
    GAMES,       \* mouse_gpt.GAMES: game id -> GameState, for the ids seen so far
    world,       \* the walls of the maze the simulator runs (both sides of each)
    maze,        \* a stand-alone mouse_gpt Maze object (set_wall call sequences)
    calls,       \* number of set_wall calls made on it
    last_call,   \* arguments of the last set_wall call (calls > 0) and the maze before it
    CONTROLLERS, \* app.CONTROLLERS: game id -> MouseState of its controller
    workers,     \* the /micro-mouse requests in flight: per worker thread its
                 \* position in micromouse() and its local variables
    call         \* the last call of a stand-alone function (mouse.py,
                 \* palindrome.py): its name, arguments and result

varsMaze == <<maze, calls, last_call>>
varsGpt == <<GAMES, world>>
vars == <<GAMES, world, maze, calls, last_call, CONTROLLERS, workers, call>>


(***************************************************************************)
(* mouse_gpt.py : constants                                                *)
(***************************************************************************)
GRID_W == 16
GRID_H == 16
GOAL_CELLS == {<<7,7>>, <<7,8>>, <<8,7>>, <<8,8>>}
DX == <<0, 1, 0, -1>>      \* indexed by facing + 1
DY == <<1, 0, -1, 0>>
LEFT == <<3, 0, 1, 2>>
RIGHT == <<1, 2, 3, 0>>
BACK == <<2, 3, 0, 1>>
INF == 1000000000

dx(d) == DX[d + 1]
dy(d) == DY[d + 1]

in_bounds(x, y) == 0 <= x /\ x < GRID_W /\ 0 <= y /\ y < GRID_H

\* the same connecting edge as stored at the neighbour: (nx, ny, rdir)
mirror(e) == <<e[1] + dx(e[3]), e[2] + dy(e[3]), (e[3] + 2) % 4>>

Cells == (0 .. GRID_W - 1) \X (0 .. GRID_H - 1)

(***************************************************************************)
(* Maze: cells[x][y].walls[d] is "wall" for <<x,y,d>> in wall, "open" for  *)
(* <<x,y,d>> in open and "unknown" otherwise; visited holds the cells      *)
(* whose visited flag is set.  A fresh Maze knows nothing.                 *)
(***************************************************************************)
Maze == [wall |-> {}, open |-> {}, visited |-> {}]

\* cells[x][y].walls[d] of an in-bounds cell
walls_at(m, x, y, d) ==
    IF <<x, y, d>> \in m.wall THEN "wall"
    ELSE IF <<x, y, d>> \in m.open THEN "open"
    ELSE "unknown"

\* cells[x][y].walls[d] = present
store_wall(m, x, y, d, present) ==
    IF present
    THEN [m EXCEPT !.wall = @ \cup {<<x, y, d>>}, !.open = @ \ {<<x, y, d>>}]
    ELSE [m EXCEPT !.open = @ \cup {<<x, y, d>>}, !.wall = @ \ {<<x, y, d>>}]

\* old is not None and old != present
conflicts(old, present) ==
    old # "unknown" /\ old # (IF present THEN "wall" ELSE "open")

\* set_wall_mirror without the write of the reciprocal side
set_wall_mirror_skipped(m, x, y, dir, present) == m

\* Maze.set_wall, second half: the reciprocal edge of the neighbour
set_wall_mirror(m, x, y, dir, present) ==
    LET nx == x + dx(dir)
        ny == y + dy(dir)
        rdir == (dir + 2) % 4
    IN  IF in_bounds(nx, ny)
        THEN LET nold == walls_at(m, nx, ny, rdir)
                 p2 == IF conflicts(nold, present) THEN TRUE ELSE present
             IN  store_wall(m, nx, ny, rdir, p2)
        ELSE m

\* set_wall_own where a later reading simply overwrites the edge
set_wall_own_overwrite(m, x, y, dir, present) ==
    store_wall(m, x, y, dir, present)

\* Maze.set_wall, first half: the edge of the cell itself; a conflict with
\* what is recorded is resolved to present = True
set_wall_own(m, x, y, dir, present) ==
    LET old == walls_at(m, x, y, dir)
        p1 == IF conflicts(old, present) THEN TRUE ELSE present
    IN  store_wall(m, x, y, dir, p1)

\* the value of 'present' after the first conflict check of set_wall
set_wall_present(m, x, y, dir, present) ==
    IF conflicts(walls_at(m, x, y, dir), present) THEN TRUE ELSE present

\* Maze.set_wall
set_wall(m, x, y, dir, present) ==
    IF ~in_bounds(x, y) THEN m
    ELSE set_wall_mirror(set_wall_own(m, x, y, dir, present),
                         x, y, dir, set_wall_present(m, x, y, dir, present))

\* Maze.is_blocked
is_blocked(m, x, y, dir) ==
    IF ~in_bounds(x, y) THEN "wall" ELSE walls_at(m, x, y, dir)

(***************************************************************************)
(* compute_distance_field.  The deque is FIFO, so every cell of distance k *)
(* is popped before any cell of distance k+1: q stands for the stretch of  *)
(* the deque holding the cells of one distance, and one call of bfs_loop   *)
(* pops that whole stretch.                                                *)
(***************************************************************************)
\* w = maze.is_blocked(nx,ny,d); if w is True: continue
flood_edge_blocked(m, nx, ny, d) ==
    is_blocked(m, nx, ny, d) = "wall"

\* the neighbours of the popped cell (x,y) whose distance is lowered
relax(m, dist, x, y) ==
    {<<x + dx(d), y + dy(d)>> : d \in {e \in 0 .. 3 :
        /\ in_bounds(x + dx(e), y + dy(e))
        /\ ~flood_edge_blocked(m, x + dx(e), y + dy(e), e)
        /\ dist[<<x, y>>] + 1 < dist[<<x + dx(e), y + dy(e)>>]}}

RECURSIVE bfs_loop(_, _, _)
bfs_loop(m, dist, q) ==
    IF q = {} THEN dist
    ELSE LET nxt == UNION {relax(m, dist, c[1], c[2]) : c \in q}
             nd == dist[CHOOSE c \in q : TRUE] + 1
         IN  bfs_loop(m, [c \in Cells |-> IF c \in nxt THEN nd ELSE dist[c]], nxt)

compute_distance_field(m) ==
    bfs_loop(m, [c \in Cells |-> IF c \in GOAL_CELLS THEN 0 ELSE INF], GOAL_CELLS)

(***************************************************************************)
(* GameState and sensor processing                                         *)
(***************************************************************************)
Pose(x, y, facing, momentum) ==
    [x |-> x, y |-> y, facing |-> facing, momentum |-> momentum]

\* a freshly created GameState
GameState ==
    [maze |-> Maze, pose |-> Pose(0, 0, 0, 0), exploring |-> TRUE,
     instr_queue |-> <<>>, speed_path |-> <<>>, last_run |-> 0]

\* one reading of update_maze_with_sensors: 1 records a wall, 0 an open edge,
\* any other value leaves the edge alone
apply_reading(m, x, y, dir, reading) ==
    IF reading = 1 THEN set_wall(m, x, y, dir, TRUE)
    ELSE IF reading = 0 THEN set_wall(m, x, y, dir, FALSE)
    ELSE m

\* update_maze_with_sensors that feeds the right reading to the rear edge
update_maze_with_sensors_rear(gs, sensor_data) ==
    LET x == gs.pose.x
        y == gs.pose.y
        f == gs.pose.facing
        m1 == apply_reading(gs.maze, x, y, LEFT[f + 1], sensor_data[1])
        m2 == apply_reading(m1, x, y, BACK[f + 1], sensor_data[5])
        m3 == apply_reading(m2, x, y, f, sensor_data[3])
    IN  [gs EXCEPT !.maze = [m3 EXCEPT !.visited = @ \cup {<<x, y>>}]]

\* update_maze_with_sensors: sensor_data = [left90, left45, front, right45,
\* right90]; left, then right, then front; the cell is marked visited
update_maze_with_sensors(gs, sensor_data) ==
    LET x == gs.pose.x
        y == gs.pose.y
        f == gs.pose.facing
        m1 == apply_reading(gs.maze, x, y, LEFT[f + 1], sensor_data[1])
        m2 == apply_reading(m1, x, y, RIGHT[f + 1], sensor_data[5])
        m3 == apply_reading(m2, x, y, f, sensor_data[3])
    IN  [gs EXCEPT !.maze = [m3 EXCEPT !.visited = @ \cup {<<x, y>>}]]

(***************************************************************************)
(* choose_next_cell                                                        *)
(***************************************************************************)
\* a preference that ranks the right neighbour first
heading_pref_right_first(d, f) ==
    IF d = RIGHT[f + 1] THEN 0
    ELSE IF d = f THEN 1
    ELSE IF d = LEFT[f + 1] THEN 2
    ELSE 3

\* pref = 0 if d==f else (1 if d==LEFT[f] else (2 if d==RIGHT[f] else 3))
heading_pref(d, f) ==
    IF d = f THEN 0
    ELSE IF d = LEFT[f + 1] THEN 1
    ELSE IF d = RIGHT[f + 1] THEN 2
    ELSE 3

\* the directions choose_next_cell collects in options
options(gs) ==
    {d \in 0 .. 3 :
        /\ in_bounds(gs.pose.x + dx(d), gs.pose.y + dy(d))
        /\ is_blocked(gs.maze, gs.pose.x, gs.pose.y, d) # "wall"}

\* the sort key (score, pref) of direction d
option_key(gs, dist, d) ==
    <<dist[<<gs.pose.x + dx(d), gs.pose.y + dy(d)>>], heading_pref(d, gs.pose.facing)>>

\* tuple order of Python on the sort key
key_le(a, b) == a[1] < b[1] \/ (a[1] = b[1] /\ a[2] <= b[2])

\* choose_next_cell: <<nx, ny, d>> of options[0] after the sort, or the cell
\* itself with LEFT[f] when there is no option
choose_next_cell(gs, dist) ==
    IF options(gs) = {}
    THEN <<gs.pose.x, gs.pose.y, LEFT[gs.pose.facing + 1]>>
    ELSE LET d == CHOOSE d \in options(gs) :
                    \A e \in options(gs) :
                        key_le(option_key(gs, dist, d), option_key(gs, dist, e))
         IN  <<gs.pose.x + dx(d), gs.pose.y + dy(d), d>>

(***************************************************************************)
(* Instruction generation                                                  *)
(***************************************************************************)
TARGET_CRUISE == 2
MAX_ABS_M == 4
BATCH_MAX == 12

Min(a, b) == IF a < b THEN a ELSE b
Max(a, b) == IF a > b THEN a ELSE b
Abs(a) == IF a < 0 THEN -a ELSE a

\* straight_token_for: <<token, new_m>>
straight_token_for(m_in) ==
    IF m_in < TARGET_CRUISE THEN <<"F2", Min(m_in + 1, MAX_ABS_M)>>
    ELSE IF m_in > TARGET_CRUISE THEN <<"F0", Max(m_in - 1, 0)>>
    ELSE <<"F1", m_in>>

\* the momentum after one BB, as prebrake_to_wide and plan_step_toward compute it
after_bb(m) ==
    IF m > 0 THEN Max(0, m - 2)
    ELSE IF m < 0 THEN Min(0, m + 2)
    ELSE m

\* a planner that enters corners without braking
prebrake_to_wide_never(m) == <<>>

\* prebrake_to_wide: BB while abs(m) > 2
RECURSIVE prebrake_to_wide(_)
prebrake_to_wide(m) ==
    IF Abs(m) > 2 THEN <<"BB">> \o prebrake_to_wide(after_bb(m)) ELSE <<>>

\* the momentum plan_step_toward simulates over the BB tokens of instr
RECURSIVE simulate_bbs(_, _)
simulate_bbs(m, instr) ==
    IF instr = <<>> THEN m
    ELSE simulate_bbs(IF Head(instr) = "BB" THEN after_bb(m) ELSE m, Tail(instr))

\* corner_token
corner_token(direction) == IF direction = "L" THEN "F1LW" ELSE "F1RW"

\* inplace_turns
inplace_turns(from_f, to_f, m) ==
    IF m # 0 THEN <<>>
    ELSE CASE (to_f - from_f) % 4 = 0 -> <<>>
           [] (to_f - from_f) % 4 = 1 -> <<"R", "R">>
           [] (to_f - from_f) % 4 = 2 -> <<"R", "R", "R", "R">>
           [] (to_f - from_f) % 4 = 3 -> <<"L", "L">>

\* plan_step_toward, next_dir == f: two half-steps
plan_straight(m) ==
    LET s1 == straight_token_for(m)
        s2 == straight_token_for(s1[2])
    IN  [instr |-> <<s1[1], s2[1]>>, momentum |-> s2[2]]

\* plan_step_toward, the opposite direction: stop, turn in place, one cell
\* forward; pre is what was emitted so far and m the momentum after it
plan_reverse(f, next_dir, pre, m) ==
    LET pre2 == prebrake_to_wide(m)
        stop == IF m # 0 /\ m >= 2 THEN <<"BB">>
                ELSE IF m # 0 /\ m = 1 THEN <<"F0">>
                ELSE <<>>
        m2 == IF m # 0 /\ m >= 2 THEN Max(0, m - 2)
              ELSE IF m # 0 /\ m = 1 THEN 0
              ELSE m
        s1 == straight_token_for(m2)
        s2 == straight_token_for(s1[2])
    IN  [instr |-> pre \o pre2 \o stop \o inplace_turns(f, next_dir, m2)
                       \o <<s1[1], s2[1]>>,
         momentum |-> s2[2]]

\* plan_step_toward: the tokens of one step and gs.pose.momentum after it
\* (the facing is left to the caller)
plan_step_toward(gs, next_dir) ==
    LET f == gs.pose.facing
        m == gs.pose.momentum
    IN  IF next_dir = f THEN plan_straight(m)
        ELSE LET pre == prebrake_to_wide(m)
                 m1 == IF pre # <<>> THEN simulate_bbs(m, pre) ELSE m
             IN  IF next_dir = LEFT[f + 1] \/ next_dir = RIGHT[f + 1]
                 THEN LET s == straight_token_for(m1)
                      IN  [instr |-> pre \o <<corner_token(
                                        IF next_dir = LEFT[f + 1] THEN "L" ELSE "R")>>
                                        \o <<s[1]>>,
                           momentum |-> s[2]]
                 ELSE plan_reverse(f, next_dir, pre, m1)

\* the braking loop "while momentum > 0: BB if momentum >= 2 else F0"
RECURSIVE brake_to_stop(_)
brake_to_stop(m) ==
    IF m > 0
    THEN IF m >= 2 THEN <<"BB">> \o brake_to_stop(m - 2)
         ELSE <<"F0">> \o brake_to_stop(0)
    ELSE <<>>

(***************************************************************************)
(* Path utilities                                                          *)
(***************************************************************************)
\* reconstruct_path: follow prev from goal back to start, then reverse
RECURSIVE reconstruct_path(_, _, _)
reconstruct_path(prev, start, cur) ==
    IF cur = start THEN <<start>>
    ELSE Append(reconstruct_path(prev, start, prev[cur]), cur)

\* a search that also crosses edges of unknown state
skp_visit_unknown_open(m, u, st, d) ==
    LET v == <<u[1] + dx(d), u[2] + dy(d)>>
    IN  IF is_blocked(m, u[1], u[2], d) = "wall" THEN st
        ELSE IF ~in_bounds(v[1], v[2]) THEN st
        ELSE IF v \in st.seen THEN st
        ELSE [q |-> Append(st.q, v), seen |-> st.seen \cup {v},
              prev |-> (v :> u) @@ st.prev]

\* shortest_known_path, the body of "for d in range(4)" for one d: st holds
\* the deque q, the set seen and the dict prev
skp_visit(m, u, st, d) ==
    LET v == <<u[1] + dx(d), u[2] + dy(d)>>
    IN  IF is_blocked(m, u[1], u[2], d) # "open" THEN st
        ELSE IF ~in_bounds(v[1], v[2]) THEN st
        ELSE IF v \in st.seen THEN st
        ELSE [q |-> Append(st.q, v), seen |-> st.seen \cup {v},
              prev |-> (v :> u) @@ st.prev]

\* shortest_known_path, the while loop
RECURSIVE skp_loop(_, _, _, _)
skp_loop(m, st, start, goals) ==
    IF st.q = <<>> THEN [found |-> FALSE, path |-> <<>>]
    ELSE LET u == Head(st.q)
             popped == [st EXCEPT !.q = Tail(@)]
         IN  IF u \in goals
             THEN [found |-> TRUE, path |-> reconstruct_path(st.prev, start, u)]
             ELSE skp_loop(m,
                    skp_visit(m, u, skp_visit(m, u, skp_visit(m, u,
                        skp_visit(m, u, popped, 0), 1), 2), 3),
                    start, goals)

\* shortest_known_path: found = FALSE stands for None
shortest_known_path(m, start, goals) ==
    skp_loop(m, [q |-> <<start>>, seen |-> {start}, prev |-> <<>>], start, goals)

\* plan_instructions_for_path, the direction from path[i-1] to path[i]
\* (4: not adjacent)
step_direction(a, b) ==
    IF b[1] = a[1] /\ b[2] = a[2] + 1 THEN 0
    ELSE IF b[1] = a[1] + 1 /\ b[2] = a[2] THEN 1
    ELSE IF b[1] = a[1] /\ b[2] = a[2] - 1 THEN 2
    ELSE IF b[1] = a[1] - 1 /\ b[2] = a[2] THEN 3
    ELSE 4

\* plan_instructions_for_path, the for loop from index i (1-based position of
\* path[i] in the sequence is i + 1)
RECURSIVE plan_path_loop(_, _, _, _)
plan_path_loop(gs, path, i, instr) ==
    IF i >= Len(path) THEN [gs |-> gs, instr |-> instr]
    ELSE LET d == step_direction(path[i], path[i + 1])
         IN  IF d = 4 THEN plan_path_loop(gs, path, i + 1, instr)
             ELSE LET step == plan_step_toward(gs, d)
                      moved == [gs EXCEPT !.pose = Pose(path[i + 1][1], path[i + 1][2],
                                                        d, step.momentum)]
                  IN  plan_path_loop(moved, path, i + 1, instr \o step.instr)

\* plan_instructions_for_path: the steps along the path, then a full stop
plan_instructions_for_path(gs, path) ==
    LET r == plan_path_loop(gs, path, 1, <<>>)
    IN  [gs |-> [r.gs EXCEPT !.pose.momentum = IF @ > 0 THEN 0 ELSE @],
         instr |-> r.instr \o brake_to_stop(r.gs.pose.momentum)]

\* at_goal_cell
at_goal_cell(gs) == <<gs.pose.x, gs.pose.y>> \in GOAL_CELLS

(***************************************************************************)
(* handle_post.  A request body is a record                                *)
(*   [is_crashed, goal_reached, run, momentum, sensor_data];               *)
(* the result holds the session state after the turn, the response and the *)
(* return statement taken.                                                 *)
(***************************************************************************)
\* the whole queue in place of queue[:BATCH_MAX]
batch_head_whole(q) == q

\* queue[:BATCH_MAX] and queue[BATCH_MAX:]
batch_head(q) == SubSeq(q, 1, Min(BATCH_MAX, Len(q)))
batch_rest(q) == SubSeq(q, BATCH_MAX + 1, Len(q))

Response(gs, instructions, end, branch) ==
    [gs |-> gs, instructions |-> instructions, end |-> end, branch |-> branch]

\* a reset that does not record the run it was made for
run_to_store_unrecorded(gs, run) == gs.last_run

\* gs.last_run = run
run_to_store(gs, run) == run

\* a reset that replaces the session by a new GameState
reset_on_run_fresh_state(gs, run) ==
    IF run # gs.last_run THEN [GameState EXCEPT !.last_run = run] ELSE gs

\* the reset on a changed run counter (lines 401-408)
reset_on_run(gs, run) ==
    IF run # gs.last_run
    THEN [gs EXCEPT !.instr_queue = <<>>, !.speed_path = <<>>, !.exploring = TRUE,
                    !.pose = Pose(0, 0, 0, 0), !.last_run = run_to_store(gs, run)]
    ELSE gs

\* body.get("sensor_data") or [0,0,0,0,0]
sensor_or_default(sensor_data) ==
    IF sensor_data = <<>> THEN <<0, 0, 0, 0, 0>> ELSE sensor_data

\* the exploring branch in a goal cell (dist == 0): stop
explore_stop(gs) ==
    LET stop_instr == brake_to_stop(gs.pose.momentum)
        g == [gs EXCEPT !.pose.momentum = IF @ > 0 THEN 0 ELSE @,
                        !.instr_queue = @ \o stop_instr]
    IN  Response(g, batch_head(g.instr_queue), FALSE, "goal_stop")

\* lines 455-458: cache the known-open path from the pose to the goal
cache_speed_path(gs) ==
    LET sp == shortest_known_path(gs.maze, <<gs.pose.x, gs.pose.y>>, GOAL_CELLS)
    IN  IF sp.found /\ Len(sp.path) > 0 THEN [gs EXCEPT !.speed_path = sp.path]
        ELSE gs

\* the exploring branch elsewhere: one step toward the chosen neighbour
explore_step(gs, dist) ==
    LET nxt == choose_next_cell(gs, dist)
        step == plan_step_toward(gs, nxt[3])
        g == [gs EXCEPT !.pose = Pose(nxt[1], nxt[2], nxt[3], step.momentum),
                        !.instr_queue = @ \o step.instr]
        g2 == cache_speed_path(g)
    IN  Response(g2, batch_head(g2.instr_queue), FALSE, "explore_step")

\* the exploring branch (lines 429-459)
explore(gs) ==
    LET dist == compute_distance_field(gs.maze)
    IN  IF dist[<<gs.pose.x, gs.pose.y>>] = 0 THEN explore_stop(gs)
        ELSE explore_step(gs, dist)

\* the speed-run branch (lines 462-481)
speed_run(gs) ==
    IF <<gs.pose.x, gs.pose.y>> = <<0, 0>> /\ gs.pose.momentum = 0
    THEN LET path == shortest_known_path(gs.maze, <<0, 0>>, GOAL_CELLS)
         IN  IF ~path.found
             THEN Response([gs EXCEPT !.exploring = TRUE], <<>>, FALSE, "speed_fallback")
             ELSE LET r == plan_instructions_for_path(
                               [gs EXCEPT !.pose = Pose(0, 0, 0, 0)], path.path)
                      g == [r.gs EXCEPT !.instr_queue = @ \o r.instr]
                  IN  Response(g, batch_head(g.instr_queue), FALSE, "speed_plan")
    ELSE IF gs.instr_queue # <<>>
         THEN Response([gs EXCEPT !.instr_queue = batch_rest(@)],
                       batch_head(gs.instr_queue), FALSE, "speed_continue")
         ELSE Response(gs, <<>>, FALSE, "speed_idle")

\* the session state after the run reset, the momentum update and the sensor
\* update of a turn (lines 399-415)
turn_state(gs, body) ==
    LET g1 == reset_on_run(gs, body.run)
        g2 == [g1 EXCEPT !.pose.momentum = body.momentum]
    IN  update_maze_with_sensors(g2, sensor_or_default(body.sensor_data))

\* "left90, _, front, _, right90 = sensor_data" raises ValueError unless
\* sensor_data has exactly five entries
unpack_fails(sensor_data) == Len(sensor_data) # 5

\* the session state an exception of update_maze_with_sensors leaves behind:
\* the run reset and the momentum update are done, the maze is untouched
state_at_raise(gs, body) ==
    [reset_on_run(gs, body.run) EXCEPT !.pose.momentum = body.momentum]

\* handle_post on the session state gs (after the lookup-or-create); branch
\* "raised" stands for an exception that leaves handle_post, with no response
handle_post(gs, body) ==
    IF body.is_crashed THEN Response(gs, <<>>, TRUE, "crashed")
    ELSE IF unpack_fails(sensor_or_default(body.sensor_data))
    THEN Response(state_at_raise(gs, body), <<>>, FALSE, "raised")
    ELSE LET g3 == turn_state(gs, body)
         IN  IF g3.instr_queue # <<>>
             THEN Response([g3 EXCEPT !.instr_queue = batch_rest(@)],
                           batch_head(g3.instr_queue), FALSE, "resend")
             ELSE IF body.goal_reached THEN Response(g3, <<>>, FALSE, "goal_reached")
             ELSE IF g3.exploring THEN explore(g3)
             ELSE speed_run(g3)

\* switch_to_speed_run on the session state
switch_to_speed_run(gs) == [gs EXCEPT !.exploring = FALSE]

(***************************************************************************)
(* app.py : MicroMouseController.  Headings are "N", "E", "S", "W"; walls  *)
(* is a set of <<x, y, side>>; a result holds the controller state after   *)
(* the call and the tokens it returns.                                     *)
(***************************************************************************)
app_GOAL_CELLS == {<<7,7>>, <<7,8>>, <<8,7>>, <<8,8>>}
VEC == [N |-> <<0, 1>>, E |-> <<1, 0>>, S |-> <<0, -1>>, W |-> <<-1, 0>>]
app_RIGHT == [N |-> "E", E |-> "S", S |-> "W", W |-> "N"]
app_LEFT == [N |-> "W", W |-> "S", S |-> "E", E |-> "N"]
app_BACK == [N |-> "S", S |-> "N", E |-> "W", W |-> "E"]
SIDES == <<"N", "E", "S", "W">>
SIDE_VEC == [N |-> <<0, 1>>, E |-> <<1, 0>>, S |-> <<0, -1>>, W |-> <<-1, 0>>]
BOUNDARY_WALLS ==
    {<<x, 0, "S">> : x \in 0 .. 15} \cup {<<x, 15, "N">> : x \in 0 .. 15}
    \cup {<<0, y, "W">> : y \in 0 .. 15} \cup {<<15, y, "E">> : y \in 0 .. 15}

app_in_bounds(x, y) == 0 <= x /\ x < 16 /\ 0 <= y /\ y < 16

\* MouseState() after __post_init__
MouseState ==
    [cell |-> <<0, 0>>, heading |-> "N", momentum |-> 0, walls |-> BOUNDARY_WALLS]

Result(st, toks) == [state |-> st, toks |-> toks]

front_blocked(sd) == sd[3] = 1
right_blocked(sd) == sd[5] = 1
left_blocked(sd) == sd[1] = 1

heading_points_into_goal(cell, heading) ==
    LET nx == cell[1] + VEC[heading][1]
        ny == cell[2] + VEC[heading][2]
    IN  app_in_bounds(nx, ny) /\ <<nx, ny>> \in app_GOAL_CELLS

mark_wall(st, side) ==
    LET x == st.cell[1]
        y == st.cell[2]
        h == st.heading
        side_dir == CASE side = "F" -> h
                      [] side = "R" -> app_RIGHT[h]
                      [] side = "L" -> app_LEFT[h]
        nx == x + SIDE_VEC[side_dir][1]
        ny == y + SIDE_VEC[side_dir][2]
    IN  [st EXCEPT !.walls = @ \cup {<<x, y, side_dir>>}
                               \cup (IF app_in_bounds(nx, ny)
                                     THEN {<<nx, ny, app_BACK[side_dir]>>} ELSE {})]

has_wall(st, cell, dirc) == <<cell[1], cell[2], dirc>> \in st.walls

(***************************************************************************)
(* _compute_dist.  As in compute_distance_field, q stands for the stretch  *)
(* of the FIFO deque that holds the cells of one distance.                 *)
(***************************************************************************)
app_INF == 1000000000

\* a distance is propagated through any edge, whatever walls are recorded
dist_edge_blocked_never(st, x, y, dirc) == FALSE

\* if self._has_wall((x,y), dirc): continue
\* if self._has_wall((nx,ny), BACK[dirc]): continue
dist_edge_blocked(st, x, y, dirc) ==
    \/ has_wall(st, <<x, y>>, dirc)
    \/ has_wall(st, <<x + SIDE_VEC[dirc][1], y + SIDE_VEC[dirc][2]>>, app_BACK[dirc])

\* the neighbours of the popped cell (x,y) whose distance is lowered
app_relax(st, dist, x, y) ==
    {<<x + SIDE_VEC[dirc][1], y + SIDE_VEC[dirc][2]>> :
        dirc \in {e \in {"N", "E", "S", "W"} :
            /\ app_in_bounds(x + SIDE_VEC[e][1], y + SIDE_VEC[e][2])
            /\ ~dist_edge_blocked(st, x, y, e)
            /\ dist[<<x + SIDE_VEC[e][1], y + SIDE_VEC[e][2]>>] > dist[<<x, y>>] + 1}}

RECURSIVE app_bfs_loop(_, _, _)
app_bfs_loop(st, dist, q) ==
    IF q = {} THEN dist
    ELSE LET nxt == UNION {app_relax(st, dist, c[1], c[2]) : c \in q}
             nd == dist[CHOOSE c \in q : TRUE] + 1
         IN  app_bfs_loop(st, [c \in Cells |-> IF c \in nxt THEN nd ELSE dist[c]], nxt)

compute_dist(st) ==
    app_bfs_loop(st, [c \in Cells |-> IF c \in app_GOAL_CELLS THEN 0 ELSE app_INF],
                 app_GOAL_CELLS)

\* the loop of _choose_next_dir over SIDES[i..]; best is "None" for None
RECURSIVE choose_dir_loop(_, _, _, _, _)
choose_dir_loop(st, dist, i, best, bestd) ==
    IF i > Len(SIDES) THEN best
    ELSE LET dirc == SIDES[i]
             nx == st.cell[1] + SIDE_VEC[dirc][1]
             ny == st.cell[2] + SIDE_VEC[dirc][2]
         IN  IF ~app_in_bounds(nx, ny) THEN choose_dir_loop(st, dist, i + 1, best, bestd)
             ELSE IF has_wall(st, st.cell, dirc)
                  THEN choose_dir_loop(st, dist, i + 1, best, bestd)
             ELSE IF dist[<<nx, ny>>] < bestd
                  THEN choose_dir_loop(st, dist, i + 1, dirc, dist[<<nx, ny>>])
             ELSE choose_dir_loop(st, dist, i + 1, best, bestd)

choose_next_dir(st, dist) == choose_dir_loop(st, dist, 1, "None", 1000000000)

(***************************************************************************)
(* Motion primitives                                                       *)
(***************************************************************************)
ensure_rest(st) ==
    IF st.momentum > 0 THEN Result([st EXCEPT !.momentum = 0], <<"F0">>)
    ELSE Result(st, <<>>)

\* idx of _rotate_to, order.index of turn_seq
idx(d) == CASE d = "N" -> 0 [] d = "E" -> 1 [] d = "S" -> 2 [] d = "W" -> 3

\* n times [tok, tok]
turn_pairs(tok, n) == [i \in 1 .. 2 * n |-> tok]

rotate_to(st, target_heading) ==
    LET cw == (idx(target_heading) - idx(st.heading)) % 4
        ccw == (idx(st.heading) - idx(target_heading)) % 4
    IN  Result([st EXCEPT !.heading = target_heading],
               IF cw <= ccw THEN turn_pairs("R", cw) ELSE turn_pairs("L", ccw))

\* _forward_one_cell that never accelerates
forward_one_cell_coasting(st) ==
    Result([st EXCEPT !.cell = <<st.cell[1] + VEC[st.heading][1],
                                 st.cell[2] + VEC[st.heading][2]>>,
                      !.momentum = 1],
           <<"F1", "F1">>)

forward_one_cell(st) ==
    Result([st EXCEPT !.cell = <<st.cell[1] + VEC[st.heading][1],
                                 st.cell[2] + VEC[st.heading][2]>>,
                      !.momentum = 1],
           IF st.momentum = 0 THEN <<"F2", "F1">> ELSE <<"F1", "F1">>)

(***************************************************************************)
(* _finish_if_goal and step                                                *)
(***************************************************************************)
\* the directions of Case B that point to another goal cell, in scan order
candidate_dirs(st) ==
    LET points_in(dirc) ==
            /\ app_in_bounds(st.cell[1] + VEC[dirc][1], st.cell[2] + VEC[dirc][2])
            /\ <<st.cell[1] + VEC[dirc][1], st.cell[2] + VEC[dirc][2]>> \in app_GOAL_CELLS
            /\ ~has_wall(st, st.cell, dirc)
    IN  SelectSeq(<<"N", "E", "S", "W">>, points_in)

turn_seq(cur, tgt) ==
    IF (idx(tgt) - idx(cur)) % 4 <= (idx(cur) - idx(tgt)) % 4
    THEN <<"R", "R">> ELSE <<"L", "L">>

\* Case B: re-aim, move one cell within the goal, brake
finish_reaim(st) ==
    LET target == candidate_dirs(st)[1]
    IN  Result([st EXCEPT !.heading = target,
                          !.cell = <<st.cell[1] + VEC[target][1],
                                     st.cell[2] + VEC[target][2]>>,
                          !.momentum = 0],
               (IF st.momentum = 0 THEN <<"F2">> ELSE <<>>)
                   \o turn_seq(st.heading, target) \o <<"F1">> \o <<"F0">>)

\* _finish_if_goal that brakes with BB where the heading points into the goal
finish_if_goal_hard_brake(st) ==
    IF st.cell \notin app_GOAL_CELLS THEN Result(st, <<>>)
    ELSE IF heading_points_into_goal(st.cell, st.heading)
         THEN IF st.momentum > 0 THEN Result([st EXCEPT !.momentum = 0], <<"BB">>)
              ELSE Result(st, <<>>)
    ELSE IF candidate_dirs(st) = <<>>
         THEN Result(st, IF st.momentum > 0 THEN <<"F0">> ELSE <<>>)
    ELSE finish_reaim(st)

finish_if_goal(st) ==
    IF st.cell \notin app_GOAL_CELLS THEN Result(st, <<>>)
    ELSE IF heading_points_into_goal(st.cell, st.heading)
         THEN IF st.momentum > 0 THEN Result([st EXCEPT !.momentum = 0], <<"F0">>)
              ELSE Result(st, <<>>)
    ELSE IF candidate_dirs(st) = <<>>
         THEN Result(st, IF st.momentum > 0 THEN <<"F0">> ELSE <<>>)
    ELSE finish_reaim(st)

\* the three _mark_wall calls of step
mark_sensed(st, sd) ==
    LET s1 == IF front_blocked(sd) THEN mark_wall(st, "F") ELSE st
        s2 == IF right_blocked(sd) THEN mark_wall(s1, "R") ELSE s1
    IN  IF left_blocked(sd) THEN mark_wall(s2, "L") ELSE s2

\* the branch "desired is None" of step
step_boxed(st) ==
    LET r1 == ensure_rest(st)
        r2 == rotate_to(r1.state, app_BACK[st.heading])
        r3 == forward_one_cell(r2.state)
        fin == finish_if_goal(r3.state)
    IN  Result(fin.state, r1.toks \o r2.toks \o r3.toks \o fin.toks)

\* a stride that is taken in corridors only
stride_of_corridor_only(st) ==
    IF /\ has_wall(st, st.cell, app_LEFT[st.heading])
       /\ has_wall(st, st.cell, app_RIGHT[st.heading])
       /\ ~has_wall(st, st.cell, st.heading)
    THEN 2 ELSE 0

\* stride = 2 if (left_wall and right_wall and not front wall) else 1
stride_of(st) ==
    IF /\ has_wall(st, st.cell, app_LEFT[st.heading])
       /\ has_wall(st, st.cell, app_RIGHT[st.heading])
       /\ ~has_wall(st, st.cell, st.heading)
    THEN 2 ELSE 1

\* the loop "for _ in range(stride)" with n iterations left
RECURSIVE stride_loop(_, _, _)
stride_loop(st, tokens, n) ==
    IF n = 0 THEN Result(st, tokens)
    ELSE LET f == forward_one_cell(st)
             fin == finish_if_goal(f.state)
         IN  IF fin.toks # <<>> THEN Result(fin.state, tokens \o f.toks \o fin.toks)
             ELSE stride_loop(fin.state, tokens \o f.toks, n - 1)

\* step after the early finish check returned no tokens
step_plan(st) ==
    LET desired == choose_next_dir(st, compute_dist(st))
    IN  IF desired = "None" THEN step_boxed(st)
        ELSE LET r1 == IF desired # st.heading THEN ensure_rest(st) ELSE Result(st, <<>>)
                 r2 == IF desired # st.heading THEN rotate_to(r1.state, desired)
                       ELSE Result(st, <<>>)
             IN  stride_loop(r2.state, r1.toks \o r2.toks, stride_of(r2.state))

\* step on the controller state st; a payload is [momentum, sensor_data]
step(st, payload) ==
    LET s0 == [st EXCEPT !.momentum = IF payload.momentum > 0 THEN 1 ELSE 0]
        s1 == mark_sensed(s0, sensor_or_default(payload.sensor_data))
        fin == finish_if_goal(s1)
    IN  IF fin.toks # <<>> THEN fin ELSE step_plan(fin.state)

(***************************************************************************)
(* mouse.py : token helpers                                                *)
(***************************************************************************)
\* the while loop of brake_to_zero_tokens; toks and cur are its locals
RECURSIVE brake_loop(_, _, _)
brake_loop(toks, cur, max_tokens) ==
    IF cur > 0 /\ Len(toks) < max_tokens
    THEN IF cur >= 2 THEN brake_loop(Append(toks, "BB"), cur - 2, max_tokens)
         ELSE brake_loop(Append(toks, "F0"), cur - 1, max_tokens)
    ELSE toks

brake_to_zero_tokens(m, max_tokens) ==
    IF m <= 0 THEN <<>> ELSE brake_loop(<<>>, m, max_tokens)

\* a turn that appends the rotation whatever is left of the budget
turn_in_place_tokens_unbudgeted(direction, m, max_tokens) ==
    Append(brake_to_zero_tokens(m, max_tokens), IF direction = "L" THEN "L" ELSE "R")

turn_in_place_tokens(direction, m, max_tokens) ==
    LET toks == brake_to_zero_tokens(m, max_tokens)
    IN  IF Len(toks) < max_tokens
        THEN Append(toks, IF direction = "L" THEN "L" ELSE "R")
        ELSE toks

(***************************************************************************)
(* palindrome.py : smallest_pal_after_k_deletions                          *)
(* A str is the sequence of its characters; solve's indices i, j are the   *)
(* 0-based ones of the code, so s[i] of the code is s[i + 1] here.  The    *)
(* Optional[str] result of solve is None_str or Some(str).                 *)
(***************************************************************************)
\* ord() of the characters that occur
ord(c) ==
    CASE c = "a" -> 97 [] c = "b" -> 98 [] c = "c" -> 99
      [] c = "I" -> 73 [] c = "M" -> 77 [] c = "P" -> 80 [] c = "O" -> 79
      [] c = "S" -> 83 [] c = "B" -> 66 [] c = "L" -> 76 [] c = "E" -> 69

\* x < y on str: the first differing character decides, and a proper
\* prefix is smaller
str_lt(x, y) ==
    \E k \in 1..(Len(x) + 1) :
        /\ k <= Len(y)
        /\ \A h \in 1..(k - 1) : x[h] = y[h]
        /\ (k = Len(x) + 1 \/ ord(x[k]) < ord(y[k]))

None_str == [some |-> FALSE]
Some(x) == [some |-> TRUE, str |-> x]

\* min(candidates) of a non-empty list of str
str_min(candidates) ==
    CHOOSE c \in {candidates[h] : h \in DOMAIN candidates} :
        \A h \in DOMAIN candidates : ~str_lt(candidates[h], c)

\* candidates.append(x) under "if x is not None"
append_if_some(candidates, opt) ==
    IF opt.some THEN Append(candidates, opt.str) ELSE candidates

RECURSIVE solve(_, _, _, _)
solve(s, i, j, k) ==
    IF k < 0 THEN None_str
    ELSE IF i > j THEN Some(<<>>)
    ELSE IF i = j THEN (IF k >= 1 THEN Some(<<>>) ELSE Some(<<s[i + 1]>>))
    ELSE LET inner == IF s[i + 1] = s[j + 1] THEN solve(s, i + 1, j - 1, k) ELSE None_str
             c1 == IF inner.some THEN <<(<<s[i + 1]>> \o inner.str \o <<s[j + 1]>>)>>
                   ELSE <<>>
             c2 == IF k >= 1 THEN append_if_some(c1, solve(s, i + 1, j, k - 1)) ELSE c1
             c3 == IF k >= 1 THEN append_if_some(c2, solve(s, i, j - 1, k - 1)) ELSE c2
             candidates == IF k >= 2 THEN append_if_some(c3, solve(s, i + 1, j - 1, k - 2))
                           ELSE c3
         IN  IF candidates = <<>> THEN None_str ELSE Some(str_min(candidates))

smallest_pal_after_k_deletions(s, K) ==
    LET ans == solve(s, 0, Len(s) - 1, K)
    IN  IF ans.some THEN ans.str
        ELSE <<"I", "M", "P", "O", "S", "S", "I", "B", "L", "E">>

(***************************************************************************)
(* Call sequences on one Maze object                                       *)
(***************************************************************************)
MaxCalls == 3
\* the cells set_wall is called on: a corner cell, two cells at the goal
\* region and a cell outside the grid
ProbeCells == {<<0,0>>, <<8,8>>, <<9,8>>, <<-1,0>>}

InitMaze ==
    /\ GAMES = <<>> /\ world = {} /\ CONTROLLERS = <<>> /\ workers = <<>> /\ call = [fn |-> "none"]
    /\ maze = Maze
    /\ calls = 0
    /\ last_call = [x |-> 0, y |-> 0, dir |-> 0, present |-> FALSE, before |-> Maze]

SetWall(x, y, dir, present) ==
    /\ calls < MaxCalls
    /\ maze' = set_wall(maze, x, y, dir, present)
    /\ calls' = calls + 1
    /\ last_call' = [x |-> x, y |-> y, dir |-> dir, present |-> present,
                     before |-> maze]
    /\ UNCHANGED <<varsGpt, CONTROLLERS, workers, call>>

NextMaze ==
    \E c \in ProbeCells, dir \in 0 .. 3, present \in BOOLEAN :
        SetWall(c[1], c[2], dir, present)

SpecMaze == InitMaze /\ [][NextMaze]_vars

(***************************************************************************)
(* One session of handle_post turns.  The simulator runs a maze (world) and*)
(* reports, each turn, the walls of that maze around the pose the session  *)
(* tracks; the momentum, the run counter and the two flags of a request    *)
(* are free.                                                               *)
(***************************************************************************)
GameIds == {"g1"}
Runs == {0}
ReportedMomenta == 0 .. MAX_ABS_M

\* the outward edges of the grid
BoundaryWalls ==
    {<<x, 0, 2>> : x \in 0 .. GRID_W - 1} \cup {<<x, GRID_H - 1, 0>> : x \in 0 .. GRID_W - 1}
    \cup {<<0, y, 3>> : y \in 0 .. GRID_H - 1} \cup {<<GRID_W - 1, y, 1>> : y \in 0 .. GRID_H - 1}

\* inner walls a world may have: in front and right of the start cell, and
\* on the way to the goal
CandidateWalls == {<<0, 0, 0>>, <<0, 0, 1>>, <<0, 7, 1>>}

\* both sides of each wall of S
both_sides(S) ==
    S \cup {mirror(e) : e \in {w \in S : in_bounds(mirror(w)[1], mirror(w)[2])}}

Worlds == {BoundaryWalls \cup both_sides(S) : S \in SUBSET CandidateWalls}

\* the sensor array [left90, left45, front, right45, right90] at a pose
sensed(w, x, y, f) ==
    <<IF <<x, y, LEFT[f + 1]>> \in w THEN 1 ELSE 0, 0,
      IF <<x, y, f>> \in w THEN 1 ELSE 0, 0,
      IF <<x, y, RIGHT[f + 1]>> \in w THEN 1 ELSE 0>>

\* an unseen id is given the state of a session that exists already (what a
\* default instance shared by all sessions would give)
session_shared(id) ==
    IF id \in DOMAIN GAMES THEN GAMES[id]
    ELSE IF GAMES = <<>> THEN GameState ELSE GAMES[CHOOSE x \in DOMAIN GAMES : TRUE]

\* GAMES[game_id] after "if game_id not in GAMES: GAMES[game_id] = GameState()"
session(id) == IF id \in DOMAIN GAMES THEN GAMES[id] ELSE GameState

\* the requests the simulator may send to session id: a new run starts at
\* the start pose
Requests(id) ==
    {[is_crashed |-> c, goal_reached |-> g, run |-> r, momentum |-> m,
      sensor_data |-> IF r # session(id).last_run
                      THEN sensed(world, 0, 0, 0)
                      ELSE sensed(world, session(id).pose.x, session(id).pose.y,
                                  session(id).pose.facing)] :
        c \in BOOLEAN, g \in BOOLEAN, r \in Runs, m \in ReportedMomenta}

InitGpt ==
    /\ GAMES = <<>> /\ CONTROLLERS = <<>> /\ workers = <<>> /\ call = [fn |-> "none"]
    /\ world \in Worlds
    /\ maze = Maze /\ calls = 0
    /\ last_call = [x |-> 0, y |-> 0, dir |-> 0, present |-> FALSE, before |-> Maze]

HandlePost(id, body) ==
    /\ GAMES' = (id :> handle_post(session(id), body).gs) @@ GAMES
    /\ UNCHANGED <<world, varsMaze, CONTROLLERS, workers, call>>

Next ==
    \E id \in GameIds : \E body \in Requests(id) : HandlePost(id, body)

Spec == InitGpt /\ [][Next]_vars

(***************************************************************************)
(* One controller of app.py driven by /micro-mouse requests.  The simulator*)
(* reports the walls of its maze around the pose the controller tracks; the*)
(* reported momentum is free.                                              *)
(***************************************************************************)
ControllerIds == {"default"}
PayloadMomenta == {0, 1, 2}

\* inner walls a world may have: in front and right of the start cell, on
\* the way to the goal, at the entry of the goal region and inside it
AppCandidateWalls == {<<0, 0, 0>>, <<0, 0, 1>>, <<0, 7, 1>>, <<6, 7, 1>>, <<7, 7, 0>>}

AppWorlds == {BoundaryWalls \cup both_sides(S) : S \in SUBSET AppCandidateWalls}

\* CONTROLLERS.get(gid), or the MicroMouseController() created for it
controller(gid) == IF gid \in DOMAIN CONTROLLERS THEN CONTROLLERS[gid] ELSE MouseState

Payloads(gid) ==
    {[momentum |-> m,
      sensor_data |-> sensed(world, controller(gid).cell[1], controller(gid).cell[2],
                             idx(controller(gid).heading))] : m \in PayloadMomenta}

InitApp ==
    /\ GAMES = <<>> /\ CONTROLLERS = <<>> /\ workers = <<>> /\ call = [fn |-> "none"]
    /\ world \in AppWorlds
    /\ maze = Maze /\ calls = 0
    /\ last_call = [x |-> 0, y |-> 0, dir |-> 0, present |-> FALSE, before |-> Maze]

Micromouse(gid, payload) ==
    /\ CONTROLLERS' = (gid :> step(controller(gid), payload).state) @@ CONTROLLERS
    /\ UNCHANGED <<GAMES, world, varsMaze, workers, call>>

NextApp ==
    \E gid \in ControllerIds : \E payload \in Payloads(gid) : Micromouse(gid, payload)

SpecApp == InitApp /\ [][NextApp]_vars

(***************************************************************************)
(* Sessions over several runs: the simulator may start a new run (it then  *)
(* reports the walls around the start pose), and the operator may call     *)
(* switch_to_speed_run.                                                    *)
(***************************************************************************)
RunValues == {0, 1}
RunMomenta == {0, 2}
RunWorlds == {BoundaryWalls \cup both_sides(S) : S \in {{}, {<<0, 0, 0>>}}}

\* the requests the simulator may send to a session in state gs; its run
\* counter never decreases
requests_for(gs, runs, momenta) ==
    {[is_crashed |-> c, goal_reached |-> g, run |-> r, momentum |-> m,
      sensor_data |-> IF r # gs.last_run
                      THEN sensed(world, 0, 0, 0)
                      ELSE sensed(world, gs.pose.x, gs.pose.y, gs.pose.facing)] :
        c \in BOOLEAN, g \in BOOLEAN, r \in {v \in runs : v >= gs.last_run},
        m \in momenta}

RunRequests(id) == requests_for(session(id), RunValues, RunMomenta)

InitRuns ==
    /\ GAMES = <<>> /\ CONTROLLERS = <<>> /\ workers = <<>> /\ call = [fn |-> "none"]
    /\ world \in RunWorlds
    /\ maze = Maze /\ calls = 0
    /\ last_call = [x |-> 0, y |-> 0, dir |-> 0, present |-> FALSE, before |-> Maze]

SwitchToSpeedRun(id) ==
    /\ id \in DOMAIN GAMES
    /\ GAMES' = [GAMES EXCEPT ![id] = switch_to_speed_run(@)]
    /\ UNCHANGED <<world, varsMaze, CONTROLLERS, workers, call>>

NextRuns ==
    \E id \in GameIds :
        \/ \E body \in RunRequests(id) : HandlePost(id, body)
        \/ SwitchToSpeedRun(id)

SpecRuns == InitRuns /\ [][NextRuns]_vars

(***************************************************************************)
(* update_maze_with_sensors applied, again and again, to a session at one  *)
(* pose with any five readings of 0 and 1.  The pose is a corner cell or an*)
(* inner cell with any facing; the rear edge starts Unknown, Wall or Open. *)
(***************************************************************************)
SenseCells == {<<0, 0>>, <<5, 5>>, <<15, 15>>}
Readings == {<<a, b, c, d, e>> : a \in {0, 1}, b \in {0, 1}, c \in {0, 1},
                                 d \in {0, 1}, e \in {0, 1}}

\* a session at cell c facing f
session_at(c, f) == [GameState EXCEPT !.pose = Pose(c[1], c[2], f, 0)]

InitSense ==
    /\ \E c \in SenseCells, f \in 0 .. 3 :
          \E m \in {Maze, set_wall(Maze, c[1], c[2], BACK[f + 1], TRUE),
                    set_wall(Maze, c[1], c[2], BACK[f + 1], FALSE)} :
              GAMES = [id \in GameIds |-> [session_at(c, f) EXCEPT !.maze = m]]
    /\ CONTROLLERS = <<>> /\ workers = <<>> /\ call = [fn |-> "none"] /\ world = {}
    /\ maze = Maze /\ calls = 0
    /\ last_call = [x |-> 0, y |-> 0, dir |-> 0, present |-> FALSE, before |-> Maze]

Sense(id, sensor_data) ==
    /\ GAMES' = [GAMES EXCEPT ![id] = update_maze_with_sensors(@, sensor_data)]
    /\ UNCHANGED <<world, varsMaze, CONTROLLERS, workers, call>>

NextSense == \E id \in GameIds : \E sensor_data \in Readings : Sense(id, sensor_data)

SpecSense == InitSense /\ [][NextSense]_vars

(***************************************************************************)
(* A session whose requests carry no usable sensor array: sensor_data is   *)
(* missing, null or [] (all written <<>>), or a list of 3 or of 6 entries. *)
(***************************************************************************)
MalformedSensorData == {<<>>, <<1, 1, 1>>, <<1, 0, 1, 0, 1, 1>>}

MalformedRequests(id) ==
    {[is_crashed |-> FALSE, goal_reached |-> g, run |-> 0, momentum |-> m,
      sensor_data |-> sd] :
        g \in BOOLEAN, m \in ReportedMomenta, sd \in MalformedSensorData}

InitMalformed ==
    /\ GAMES = <<>> /\ CONTROLLERS = <<>> /\ workers = <<>> /\ call = [fn |-> "none"] /\ world = {}
    /\ maze = Maze /\ calls = 0
    /\ last_call = [x |-> 0, y |-> 0, dir |-> 0, present |-> FALSE, before |-> Maze]

NextMalformed ==
    \E id \in GameIds : \E body \in MalformedRequests(id) : HandlePost(id, body)

SpecMalformed == InitMalformed /\ [][NextMalformed]_vars

(***************************************************************************)
(* Two session ids at one endpoint.  The simulator's maze is a dead-end    *)
(* corridor of the two cells (0,0) and (0,1), which every session walks up *)
(* and down; each request goes to one id.  app.py does not import          *)
(* mouse_gpt: a process holds sessions of GAMES or of CONTROLLERS.         *)
(***************************************************************************)
SessionIds == {"a", "b"}
SessionMomenta == {0, 1}
SessionWorld == BoundaryWalls \cup both_sides({<<0, 0, 1>>, <<0, 1, 1>>, <<0, 1, 0>>})

SessionRequests(id) ==
    {[is_crashed |-> c, goal_reached |-> FALSE, run |-> 0, momentum |-> m,
      sensor_data |-> sensed(world, session(id).pose.x, session(id).pose.y,
                             session(id).pose.facing)] :
        c \in BOOLEAN, m \in SessionMomenta}

SessionPayloads(gid) ==
    {[momentum |-> m,
      sensor_data |-> sensed(world, controller(gid).cell[1], controller(gid).cell[2],
                             idx(controller(gid).heading))] : m \in SessionMomenta}

InitSessions ==
    /\ GAMES = <<>> /\ CONTROLLERS = <<>> /\ workers = <<>> /\ call = [fn |-> "none"]
    /\ world = SessionWorld
    /\ maze = Maze /\ calls = 0
    /\ last_call = [x |-> 0, y |-> 0, dir |-> 0, present |-> FALSE, before |-> Maze]

NextSessions ==
    \E id \in SessionIds :
        \/ CONTROLLERS = <<>> /\ \E body \in SessionRequests(id) : HandlePost(id, body)
        \/ GAMES = <<>> /\ \E payload \in SessionPayloads(id) : Micromouse(id, payload)

SpecSessions == InitSessions /\ [][NextSessions]_vars

(***************************************************************************)
(* Two /micro-mouse requests for one new game id handled by two worker     *)
(* threads (app.run() serves each request in a thread of its own).         *)
(* micromouse() takes no lock: a thread may be suspended between its       *)
(* statements.  The steps here are CONTROLLERS.get, the creation and       *)
(* storing of a controller, and ctrl.step as a whole; the interpreter may  *)
(* switch threads inside these as well.  Both requests are sent before     *)
(* either is answered, so both carry the readings of the start pose.       *)
(***************************************************************************)
Workers == {"t1", "t2"}
ConcurrentGid == "default"
ConcurrentWorlds ==
    {BoundaryWalls \cup both_sides(S) : S \in SUBSET {<<0, 0, 0>>, <<0, 0, 1>>}}

\* a worker: its position pc, the payload of its request, what its local
\* variable ctrl refers to ("None", the object "stored" in CONTROLLERS[gid],
\* or an object of its "own" that the store no longer holds, with state
\* own), and the instructions it returned
Idle ==
    [pc |-> "idle", payload |-> [momentum |-> 0, sensor_data |-> <<0, 0, 0, 0, 0>>],
     ctrl |-> "None", own |-> MouseState, instr |-> <<>>]

ConcurrentPayloads ==
    {[momentum |-> m, sensor_data |-> sensed(world, 0, 0, 0)] : m \in PayloadMomenta}

InitConcurrent ==
    /\ GAMES = <<>> /\ CONTROLLERS = <<>>
    /\ workers = [t \in Workers |-> Idle] /\ call = [fn |-> "none"]
    /\ world \in ConcurrentWorlds
    /\ maze = Maze /\ calls = 0
    /\ last_call = [x |-> 0, y |-> 0, dir |-> 0, present |-> FALSE, before |-> Maze]

\* payload = request.get_json(force=True) or {}
Receive(t, payload) ==
    /\ workers[t].pc = "idle"
    /\ workers' = [workers EXCEPT ![t].pc = "get", ![t].payload = payload]
    /\ UNCHANGED <<GAMES, world, varsMaze, CONTROLLERS, call>>

\* ctrl = CONTROLLERS.get(gid)
Get(t) ==
    /\ workers[t].pc = "get"
    /\ workers' = [workers EXCEPT
                     ![t].ctrl = IF ConcurrentGid \in DOMAIN CONTROLLERS
                                 THEN "stored" ELSE "None",
                     ![t].pc = IF ConcurrentGid \in DOMAIN CONTROLLERS
                               THEN "step" ELSE "create"]
    /\ UNCHANGED <<GAMES, world, varsMaze, CONTROLLERS, call>>

\* ctrl = MicroMouseController(); CONTROLLERS[gid] = ctrl.  A worker that
\* holds the controller stored until now keeps that object.
Create(t) ==
    /\ workers[t].pc = "create"
    /\ CONTROLLERS' = (ConcurrentGid :> MouseState) @@ CONTROLLERS
    /\ workers' = [u \in Workers |->
                     IF u = t THEN [workers[u] EXCEPT !.ctrl = "stored", !.pc = "step"]
                     ELSE IF workers[u].ctrl = "stored"
                     THEN [workers[u] EXCEPT !.ctrl = "own",
                                             !.own = CONTROLLERS[ConcurrentGid]]
                     ELSE workers[u]]
    /\ UNCHANGED <<GAMES, world, varsMaze, call>>

\* instr = ctrl.step(payload); return jsonify(...)
Step(t) ==
    /\ workers[t].pc = "step"
    /\ IF workers[t].ctrl = "stored"
       THEN LET r == step(CONTROLLERS[ConcurrentGid], workers[t].payload)
            IN  /\ CONTROLLERS' = [CONTROLLERS EXCEPT ![ConcurrentGid] = r.state]
                /\ workers' = [workers EXCEPT ![t].instr = r.toks, ![t].pc = "done"]
       ELSE LET r == step(workers[t].own, workers[t].payload)
            IN  /\ workers' = [workers EXCEPT ![t].instr = r.toks, ![t].pc = "done",
                                              ![t].own = r.state]
                /\ UNCHANGED CONTROLLERS
    /\ UNCHANGED <<GAMES, world, varsMaze, call>>

NextConcurrent ==
    \E t \in Workers :
        \/ \E payload \in ConcurrentPayloads : Receive(t, payload)
        \/ Get(t)
        \/ Create(t)
        \/ Step(t)

SpecConcurrent == InitConcurrent /\ [][NextConcurrent]_vars

(***************************************************************************)
(* shortest_known_path on the mazes that set_wall calls build on the seven *)
(* edges between the six cells (5,6)..(7,7), of which (7,7) is a goal      *)
(* cell: each edge is left Unknown or recorded Open or Wall.  The session  *)
(* stands in one of three cells and caches the path, as the exploring      *)
(* branch does after each step.                                            *)
(***************************************************************************)
PathEdges == <<<<5, 6, 1>>, <<6, 6, 1>>, <<5, 7, 1>>, <<6, 7, 1>>,
               <<5, 6, 0>>, <<6, 6, 0>>, <<7, 6, 0>>>>
PathStarts == {<<5, 6>>, <<5, 7>>, <<7, 7>>}

\* the maze after set_wall on the edges k.. of PathEdges, as marks says
RECURSIVE marked_maze(_, _, _)
marked_maze(m, marks, k) ==
    IF k > Len(PathEdges) THEN m
    ELSE marked_maze(
            IF marks[k] = "unknown" THEN m
            ELSE set_wall(m, PathEdges[k][1], PathEdges[k][2], PathEdges[k][3],
                          marks[k] = "wall"),
            marks, k + 1)

PathMazes ==
    {marked_maze(Maze, marks, 1) :
        marks \in [1 .. Len(PathEdges) -> {"unknown", "open", "wall"}]}

InitPaths ==
    /\ \E m \in PathMazes, c \in PathStarts :
          GAMES = [id \in GameIds |-> [session_at(c, 0) EXCEPT !.maze = m]]
    /\ CONTROLLERS = <<>> /\ workers = <<>> /\ call = [fn |-> "none"] /\ world = {}
    /\ maze = Maze /\ calls = 0
    /\ last_call = [x |-> 0, y |-> 0, dir |-> 0, present |-> FALSE, before |-> Maze]

CachePath(id) ==
    /\ GAMES' = [GAMES EXCEPT ![id] = cache_speed_path(@)]
    /\ UNCHANGED <<world, varsMaze, CONTROLLERS, workers, call>>

NextPaths == \E id \in GameIds : CachePath(id)

SpecPaths == InitPaths /\ [][NextPaths]_vars

(***************************************************************************)
(* One session of handle_post turns in a dead end: the simulator's maze is *)
(* the corridor (0,0), (0,1), closed at its far end, or that corridor with *)
(* a bend to the cell (1,1), closed there, or the corridor (0,0), (0,1),   *)
(* (0,2).  The session turns and reverses at any reported momentum.        *)
(***************************************************************************)
DeadEndWorlds ==
    {BoundaryWalls \cup both_sides({<<0, 0, 1>>, <<0, 1, 1>>, <<0, 1, 0>>}),
     BoundaryWalls \cup both_sides({<<0, 0, 1>>, <<0, 1, 0>>,
                                    <<1, 1, 0>>, <<1, 1, 1>>, <<1, 1, 2>>}),
     BoundaryWalls \cup both_sides({<<0, 0, 1>>, <<0, 1, 1>>, <<0, 2, 1>>, <<0, 2, 0>>})}

InitDeadEnd ==
    /\ GAMES = <<>> /\ CONTROLLERS = <<>> /\ workers = <<>> /\ call = [fn |-> "none"]
    /\ world \in DeadEndWorlds
    /\ maze = Maze /\ calls = 0
    /\ last_call = [x |-> 0, y |-> 0, dir |-> 0, present |-> FALSE, before |-> Maze]

SpecDeadEnd == InitDeadEnd /\ [][Next]_vars

(***************************************************************************)
(* Calls of turn_in_place_tokens: any direction, any momentum from 0 to    *)
(* MaxTurnMomentum and any token budget from 1 to MaxTokenBudget.          *)
(***************************************************************************)
MaxTurnMomentum == 9
MaxTokenBudget == 6

\* no stand-alone function has been called yet
InitCalls ==
    /\ GAMES = <<>> /\ CONTROLLERS = <<>> /\ workers = <<>> /\ call = [fn |-> "none"]
    /\ world = {}
    /\ maze = Maze /\ calls = 0
    /\ last_call = [x |-> 0, y |-> 0, dir |-> 0, present |-> FALSE, before |-> Maze]

TurnInPlace(direction, m, max_tokens) ==
    /\ call' = [fn |-> "turn_in_place_tokens", direction |-> direction, m |-> m,
                max_tokens |-> max_tokens,
                result |-> turn_in_place_tokens(direction, m, max_tokens)]
    /\ UNCHANGED <<GAMES, world, varsMaze, CONTROLLERS, workers>>

NextTurns ==
    \E direction \in {"L", "R"} : \E m \in 0..MaxTurnMomentum :
        \E max_tokens \in 1..MaxTokenBudget : TurnInPlace(direction, m, max_tokens)

SpecTurns == InitCalls /\ [][NextTurns]_vars

(***************************************************************************)
(* Calls of smallest_pal_after_k_deletions: any string over {a, b} of      *)
(* length up to MaxLen and any budget from 0 to MaxDeletions.              *)
(***************************************************************************)
MaxLen == 4
MaxDeletions == 4
\* the strings over the alphabet {a, b}
Strings == UNION {[1..n -> {"a", "b"}] : n \in 0..MaxLen}

SmallestPal(s, K) ==
    /\ call' = [fn |-> "smallest_pal_after_k_deletions", s |-> s, K |-> K,
                result |-> smallest_pal_after_k_deletions(s, K)]
    /\ UNCHANGED <<GAMES, world, varsMaze, CONTROLLERS, workers>>

NextPalindromes == \E s \in Strings : \E K \in 0..MaxDeletions : SmallestPal(s, K)

SpecPalindromes == InitCalls /\ [][NextPalindromes]_vars

(***************************************************************************)
(* Properties of the Maze object                                           *)
(***************************************************************************)
\* C3: wall knowledge is monotonic: an edge recorded as Wall at a cell is
\* still Wall at that cell, and Wall at the mirrored side of the neighbouring
\* cell, after every later set_wall call, whatever its cell, direction and
\* present value are.
C3_WallsAreMonotonic ==
    [][\A e \in maze.wall :
          /\ e \in maze'.wall
          /\ in_bounds(mirror(e)[1], mirror(e)[2]) => mirror(e) \in maze'.wall]_vars

\* a set_wall(..., present = False) was made on an edge recorded as Wall, or
\* on its mirrored side, and the edge is still Wall
C3_Witness ==
    /\ calls > 0
    /\ ~last_call.present
    /\ in_bounds(last_call.x, last_call.y)
    /\ <<last_call.x, last_call.y, last_call.dir>> \in last_call.before.wall
    /\ <<last_call.x, last_call.y, last_call.dir>> \in maze.wall

\* C4: reciprocity: for every pair of adjacent in-bounds cells the edge state
\* stored at (x,y) toward d equals the one stored at the neighbour toward the
\* opposite direction.  (An edge recorded on neither side is Unknown on both,
\* so the recorded edges are the ones to compare.)
C4_Reciprocity ==
    \A e \in maze.wall \cup maze.open :
        in_bounds(mirror(e)[1], mirror(e)[2]) =>
            walls_at(maze, e[1], e[2], e[3])
                = walls_at(maze, mirror(e)[1], mirror(e)[2], mirror(e)[3])

\* a set_wall(..., present = True) was made on an edge recorded as Open on
\* both sides, and both sides are now Wall
C4_Witness ==
    /\ calls > 0
    /\ last_call.present
    /\ in_bounds(last_call.x, last_call.y)
    /\ in_bounds(last_call.x + dx(last_call.dir), last_call.y + dy(last_call.dir))
    /\ <<last_call.x, last_call.y, last_call.dir>> \in last_call.before.open
    /\ <<last_call.x, last_call.y, last_call.dir>> \in maze.wall
    /\ mirror(<<last_call.x, last_call.y, last_call.dir>>) \in maze.wall

\* the connecting edge of (x,y) toward d is not recorded as Wall on either side
passable(m, x, y, d) ==
    /\ in_bounds(x, y)
    /\ in_bounds(x + dx(d), y + dy(d))
    /\ walls_at(m, x, y, d) # "wall"
    /\ walls_at(m, x + dx(d), y + dy(d), (d + 2) % 4) # "wall"

\* the cells at distance k+1 from the goal region, given those within k (seen)
\* and those at exactly k (ring)
next_ring(m, seen, ring) ==
    {c \in Cells \ seen :
        \E d \in 0 .. 3 : passable(m, c[1], c[2], d)
                          /\ <<c[1] + dx(d), c[2] + dy(d)>> \in ring}

RECURSIVE rings(_, _, _, _)
rings(m, seen, ring, acc) ==
    IF ring = {} THEN acc
    ELSE LET nxt == next_ring(m, seen, ring)
         IN  rings(m, seen \cup nxt, nxt, Append(acc, nxt))

\* the length of a shortest path from each cell to the goal region over the
\* edges not recorded as Wall, INF where there is none
shortest_distance(m) ==
    LET rs == rings(m, GOAL_CELLS, GOAL_CELLS, <<GOAL_CELLS>>)
    IN  [c \in Cells |->
            IF \E k \in 1 .. Len(rs) : c \in rs[k]
            THEN (CHOOSE k \in 1 .. Len(rs) : c \in rs[k]) - 1
            ELSE INF]

\* C6: compute_distance_field returns 0 at the goal cells and, at every other
\* cell, the length of a shortest path to the goal region over the connecting
\* edges not recorded as Wall (INF where there is none).
C6_DistanceFieldIsShortestPath ==
    C4_Reciprocity => compute_distance_field(maze) = shortest_distance(maze)

(***************************************************************************)
(* Properties of handle_post sessions                                      *)
(***************************************************************************)
\* C1: handle_post returns at least one instruction for every request in
\* which is_crashed is false and goal_reached is false, whatever the mode,
\* pose, momentum and backlog of the session are.
C1_ResponseNonEmpty ==
    \A id \in GameIds : \A body \in Requests(id) :
        (~body.is_crashed /\ ~body.goal_reached) =>
            handle_post(session(id), body).instructions # <<>>

\* C5: in the maze of a freshly created GameState every outward edge of a
\* boundary cell is recorded as Wall, and it is still Wall after every turn.
C5_BoundaryEdgesAreWalls ==
    \A id \in GameIds : BoundaryWalls \subseteq session(id).maze.wall

\* the documented momentum delta of a token
token_delta(t) ==
    IF t = "F2" THEN 1 ELSE IF t = "F0" THEN -1 ELSE IF t = "BB" THEN -2 ELSE 0

\* the momentum after the first k tokens of instr, starting from m
RECURSIVE momentum_after(_, _, _)
momentum_after(m, instr, k) ==
    IF k = 0 THEN m ELSE momentum_after(m, instr, k - 1) + token_delta(instr[k])

in_momentum_range(m) == 0 <= m /\ m <= 4

\* C8: simulating the tokens a turn returns, in order, from the reported
\* momentum with the documented deltas never leaves [0,4], and the momentum
\* stored in the session after the turn is in [0,4].
C8_MomentumStaysInRange ==
    \A id \in GameIds : \A body \in Requests(id) :
        LET r == handle_post(session(id), body)
        IN  /\ \A k \in 1 .. Len(r.instructions) :
                   in_momentum_range(momentum_after(body.momentum, r.instructions, k))
            /\ in_momentum_range(r.gs.pose.momentum)

\* the rank of direction d in the order heading, left, right, reverse
turn_rank(d, f) ==
    CASE d = f -> 0
      [] d = (f + 3) % 4 -> 1
      [] d = (f + 1) % 4 -> 2
      [] d = (f + 2) % 4 -> 3

\* the in-bounds cardinal neighbours of the pose whose edge is not recorded
\* as Wall at the pose's cell, as directions
open_neighbours(gs) ==
    {d \in 0 .. 3 : /\ 0 <= gs.pose.x + DX[d + 1] /\ gs.pose.x + DX[d + 1] < GRID_W
                    /\ 0 <= gs.pose.y + DY[d + 1] /\ gs.pose.y + DY[d + 1] < GRID_H
                    /\ <<gs.pose.x, gs.pose.y, d>> \notin gs.maze.wall}

\* the distance of the neighbour of the pose toward d
neighbour_distance(gs, dist, d) ==
    dist[<<gs.pose.x + DX[d + 1], gs.pose.y + DY[d + 1]>>]

\* the states choose_next_cell is called on: the session after the sensor
\* update of a turn that reports momentum 0
choice_states(id) ==
    {turn_state(session(id), body) :
        body \in {b \in Requests(id) : b.momentum = 0 /\ ~b.is_crashed /\ ~b.goal_reached}}

\* C10: choose_next_cell returns, among the in-bounds neighbours whose edge
\* is not recorded as Wall, one of minimal distance, and among those of equal
\* minimal distance the first in the order heading, left, right, reverse.
C10_ChoosesNearestPreferred ==
    \A id \in GameIds : \A gs \in choice_states(id) :
        LET dist == compute_distance_field(gs.maze)
            c == choose_next_cell(gs, dist)
        IN  open_neighbours(gs) # {} =>
              /\ c[3] \in open_neighbours(gs)
              /\ c[1] = gs.pose.x + DX[c[3] + 1] /\ c[2] = gs.pose.y + DY[c[3] + 1]
              /\ \A e \in open_neighbours(gs) :
                    \/ neighbour_distance(gs, dist, c[3]) < neighbour_distance(gs, dist, e)
                    \/ /\ neighbour_distance(gs, dist, c[3]) = neighbour_distance(gs, dist, e)
                       /\ turn_rank(c[3], gs.pose.facing) <= turn_rank(e, gs.pose.facing)

\* choose_next_cell is called where two open neighbours tie at the minimal
\* distance, and it returns the one ahead
C10_Witness ==
    \E id \in GameIds : \E gs \in choice_states(id) :
        LET dist == compute_distance_field(gs.maze)
            c == choose_next_cell(gs, dist)
        IN  /\ c[3] = gs.pose.facing
            /\ \E e \in open_neighbours(gs) \ {c[3]} :
                   neighbour_distance(gs, dist, e) = neighbour_distance(gs, dist, c[3])

(***************************************************************************)
(* Properties of MicroMouseController                                      *)
(***************************************************************************)
\* C2: step returns a non-empty token list in every reachable state of a
\* controller and for every payload, also when the early goal finisher
\* returns no tokens and when no neighbour is selectable.
C2_StepNonEmpty ==
    \A gid \in ControllerIds : \A payload \in Payloads(gid) :
        step(controller(gid), payload).toks # <<>>

\* the controller state on which step runs the early finish check
sensed_state(gid, payload) ==
    mark_sensed([controller(gid) EXCEPT !.momentum = IF payload.momentum > 0 THEN 1 ELSE 0],
                payload.sensor_data)

\* the robot is at rest inside the goal, the early finisher returns no
\* tokens, and step returns tokens
C2_Witness ==
    \E gid \in ControllerIds : \E payload \in Payloads(gid) :
        /\ controller(gid).cell \in app_GOAL_CELLS
        /\ payload.momentum = 0
        /\ finish_if_goal(sensed_state(gid, payload)).toks = <<>>
        /\ step(controller(gid), payload).toks # <<>>

\* no wall is recorded on either side of the edge of cell c toward dirc
no_wall_between(st, c, dirc) ==
    /\ <<c[1], c[2], dirc>> \notin st.walls
    /\ <<c[1] + VEC[dirc][1], c[2] + VEC[dirc][2], app_BACK[dirc]>> \notin st.walls

\* the in-bounds neighbour cells of c, as directions
neighbour_dirs(c) ==
    {dirc \in {"N", "E", "S", "W"} :
        <<c[1] + VEC[dirc][1], c[2] + VEC[dirc][2]>> \in Cells}

neighbour_cell(c, dirc) == <<c[1] + VEC[dirc][1], c[2] + VEC[dirc][2]>>

\* the controller states _compute_dist is called on: after the walls of the
\* payload are marked
planning_states(gid) ==
    {sensed_state(gid, payload) : payload \in Payloads(gid)}

\* C7: the distance field of _compute_dist is 0 at every goal cell; every
\* non-goal cell of finite distance has a neighbour across a non-wall edge
\* whose distance is one less; two adjacent cells with no wall recorded on
\* either side of their edge have distances that differ by at most 1.
C7_DistanceFieldInvariant ==
    \A gid \in ControllerIds : \A st \in planning_states(gid) :
        LET dist == compute_dist(st)
        IN  /\ \A g \in app_GOAL_CELLS : dist[g] = 0
            /\ \A c \in Cells \ app_GOAL_CELLS :
                  dist[c] < 1000000000 =>
                      \E dirc \in neighbour_dirs(c) :
                          /\ no_wall_between(st, c, dirc)
                          /\ dist[neighbour_cell(c, dirc)] = dist[c] - 1
            /\ \A c \in Cells : \A dirc \in neighbour_dirs(c) :
                  no_wall_between(st, c, dirc) =>
                      /\ dist[c] - dist[neighbour_cell(c, dirc)] <= 1
                      /\ dist[neighbour_cell(c, dirc)] - dist[c] <= 1

\* _compute_dist runs with a wall recorded between two adjacent cells whose
\* distances differ by more than 1
C7_Witness ==
    \E gid \in ControllerIds : \E st \in planning_states(gid) :
        LET dist == compute_dist(st)
        IN  \E c \in Cells : \E dirc \in neighbour_dirs(c) :
                /\ ~no_wall_between(st, c, dirc)
                /\ dist[c] - dist[neighbour_cell(c, dirc)] > 1

\* C9: in every response of step, each rotation token L or R is emitted
\* where the momentum, simulated from the starting momentum of the turn
\* (1 if the reported momentum is positive, else 0) over the preceding
\* tokens of the response, is exactly 0.
C9_RotationsAtRest ==
    \A gid \in ControllerIds : \A payload \in Payloads(gid) :
        LET toks == step(controller(gid), payload).toks
        IN  \A k \in 1 .. Len(toks) :
                toks[k] \in {"L", "R"} =>
                    momentum_after(IF payload.momentum > 0 THEN 1 ELSE 0, toks, k - 1) = 0

(***************************************************************************)
(* Further properties of handle_post sessions                              *)
(***************************************************************************)
\* C11: in Exploring mode, whenever the current cell is not a goal cell and
\* has a finite value in the freshly computed distance field, the cell the
\* session moves to in that turn has a strictly smaller distance value.
C11_ExploreStepDescends ==
    \A id \in GameIds : \A body \in Requests(id) :
        LET g3 == turn_state(session(id), body)
            r == handle_post(session(id), body)
            dist == compute_distance_field(g3.maze)
        IN  (/\ r.branch \in {"explore_step", "goal_stop"}
             /\ <<g3.pose.x, g3.pose.y>> \notin GOAL_CELLS
             /\ dist[<<g3.pose.x, g3.pose.y>>] < INF)
            => dist[<<r.gs.pose.x, r.gs.pose.y>>] < dist[<<g3.pose.x, g3.pose.y>>]

\* the requests of session id that report a crash
crash_requests(id) == {b \in Requests(id) : b.is_crashed}

\* C15: a request with is_crashed true returns no instruction, and the next
\* non-crashed turn of the session plans from the start pose (0,0) heading
\* North with an empty backlog and the learned maze, also when its run
\* counter equals the stored one.
C15_CrashMarksReset ==
    \A id \in GameIds : \A c \in crash_requests(id) :
        LET after == handle_post(session(id), c)
        IN  /\ after.instructions = <<>>
            /\ \A b \in Requests(id) \ crash_requests(id) :
                   LET nxt == turn_state(after.gs, b)
                   IN  /\ <<nxt.pose.x, nxt.pose.y, nxt.pose.facing>> = <<0, 0, 0>>
                       /\ nxt.instr_queue = <<>>
                       /\ after.gs.maze.wall \subseteq nxt.maze.wall

\* the tokens handle_post plans in a turn: the step of the exploring branch,
\* its stop in a goal cell, or the route of the speed run
planned_tokens(gs, body) ==
    LET g3 == turn_state(gs, body)
        r == handle_post(gs, body)
    IN  IF r.branch = "explore_step"
        THEN plan_step_toward(g3, choose_next_cell(g3, compute_distance_field(g3.maze))[3]).instr
        ELSE IF r.branch = "goal_stop" THEN brake_to_stop(g3.pose.momentum)
        ELSE IF r.branch = "speed_plan"
        THEN plan_instructions_for_path([g3 EXCEPT !.pose = Pose(0, 0, 0, 0)],
                 shortest_known_path(g3.maze, <<0, 0>>, GOAL_CELLS).path).instr
        ELSE <<>>

\* C17: every planned token is delivered in exactly one response and in
\* planning order.  Turn by turn: the tokens a turn returns followed by the
\* backlog it leaves are the backlog it found followed by the tokens it
\* planned, so that the responses so far followed by the backlog always are
\* the tokens planned so far.
C17_PlannedTokensDeliveredOnce ==
    \A id \in GameIds : \A body \in Requests(id) \ crash_requests(id) :
        LET r == handle_post(session(id), body)
        IN  r.instructions \o r.gs.instr_queue
                = turn_state(session(id), body).instr_queue
                      \o planned_tokens(session(id), body)

(***************************************************************************)
(* Further properties of MicroMouseController                              *)
(***************************************************************************)
\* the tracked cell is a goal cell and the heading points into another one
faces_goal_interior(st) ==
    /\ st.cell \in app_GOAL_CELLS
    /\ neighbour_cell(st.cell, st.heading) \in app_GOAL_CELLS

\* C12: when the tracked cell is a goal cell, the heading points into another
\* goal cell and the reported momentum is positive, step returns exactly the
\* token F0, sets the tracked momentum to 0 and leaves cell and heading.
C12_BrakeInsideGoal ==
    \A gid \in ControllerIds : \A payload \in Payloads(gid) :
        (faces_goal_interior(controller(gid)) /\ payload.momentum > 0) =>
            LET r == step(controller(gid), payload)
            IN  /\ r.toks = <<"F0">>
                /\ r.state.momentum = 0
                /\ r.state.cell = controller(gid).cell
                /\ r.state.heading = controller(gid).heading

\* a controller inside the goal, heading into it, receives a positive
\* momentum and answers with one token
C12_Witness ==
    \E gid \in ControllerIds : \E payload \in Payloads(gid) :
        /\ faces_goal_interior(controller(gid))
        /\ payload.momentum > 0
        /\ Len(step(controller(gid), payload).toks) = 1

\* the four edges of the tracked cell are recorded as walls
walled_in(st) ==
    \A dirc \in {"N", "E", "S", "W"} : <<st.cell[1], st.cell[2], dirc>> \in st.walls

\* C13: when all four edges of the current cell are confirmed walls, the
\* turn returns a non-empty response without a token that advances the
\* robot, and the tracked cell is unchanged after the turn.
C13_WalledInIsNoOp ==
    \A gid \in ControllerIds : \A payload \in Payloads(gid) :
        walled_in(sensed_state(gid, payload)) =>
            LET r == step(controller(gid), payload)
            IN  /\ r.toks # <<>>
                /\ \A k \in 1 .. Len(r.toks) : r.toks[k] \in {"L", "R", "F0", "BB"}
                /\ r.state.cell = controller(gid).cell

(***************************************************************************)
(* Properties of sessions over several runs                                *)
(***************************************************************************)
\* the requests of session id that start a new run
new_run_requests(id) ==
    {b \in RunRequests(id) : ~b.is_crashed /\ b.run # session(id).last_run}

\* C14: on a run value different from the stored last_run, before sensing
\* and planning the pose is (0,0) heading North, the backlog and the cached
\* speed path are empty and the mode is Exploring, and the maze is the one
\* before the request; the turn then senses and plans from that pose.
C14_RunChangeResets ==
    \A id \in GameIds : \A body \in new_run_requests(id) :
        LET g == reset_on_run(session(id), body.run)
            t == turn_state(session(id), body)
        IN  /\ <<g.pose.x, g.pose.y, g.pose.facing>> = <<0, 0, 0>>
            /\ g.instr_queue = <<>> /\ g.speed_path = <<>> /\ g.exploring
            /\ g.maze.wall = session(id).maze.wall
            /\ g.maze.open = session(id).maze.open
            /\ <<t.pose.x, t.pose.y, t.pose.facing>> = <<0, 0, 0>>
            /\ t.instr_queue = <<>> /\ t.speed_path = <<>> /\ t.exploring
            /\ session(id).maze.wall \subseteq t.maze.wall

\* a new run starts for a session that is away from the start cell, in
\* speed-run mode, with a backlog and a learned maze
C14_Witness ==
    \E id \in GameIds :
        /\ new_run_requests(id) # {}
        /\ <<session(id).pose.x, session(id).pose.y>> # <<0, 0>>
        /\ ~session(id).exploring
        /\ session(id).instr_queue # <<>>
        /\ session(id).maze.open # {}

C16_SpeedRunEntered ==
    \A id \in GameIds : \A body \in new_run_requests(id) :
        (/\ body.momentum = 0 /\ ~body.goal_reached
         /\ shortest_known_path(turn_state(session(id), body).maze,
                                <<0, 0>>, GOAL_CELLS).found)
        => LET r == handle_post(session(id), body)
           IN  ~r.gs.exploring /\ r.branch = "speed_plan"

\* C18: every response of handle_post holds at most 12 tokens, in every mode
\* and for every backlog length, also in the turn that plans a full route.
C18_BatchIsCapped ==
    \A id \in GameIds : \A body \in RunRequests(id) :
        Len(handle_post(session(id), body).instructions) <= 12

\* a turn plans a full speed-run route of more than 12 tokens and returns 12
C18_Witness ==
    \E id \in GameIds : \E body \in RunRequests(id) :
        LET r == handle_post(session(id), body)
        IN  /\ r.branch = "speed_plan"
            /\ Len(r.gs.instr_queue) > 12
            /\ Len(r.instructions) = 12

(***************************************************************************)
(* Properties of sensor fusion                                             *)
(***************************************************************************)
\* the left, front and right edges of the pose's cell and their mirrors
sensed_edges(gs) ==
    LET own == {<<gs.pose.x, gs.pose.y, d>> :
                   d \in {(gs.pose.facing + 3) % 4, gs.pose.facing, (gs.pose.facing + 1) % 4}}
    IN  own \cup {<<e[1] + DX[e[3] + 1], e[2] + DY[e[3] + 1], (e[3] + 2) % 4>> : e \in own}

\* the reading of sensor_data that belongs to the edge toward d
reading_of(gs, sensor_data, d) ==
    IF d = gs.pose.facing THEN sensor_data[3]
    ELSE IF d = (gs.pose.facing + 3) % 4 THEN sensor_data[1]
    ELSE sensor_data[5]

\* the recorded state of edge e in maze m
edge_state(m, e) ==
    IF e \in m.wall THEN "wall" ELSE IF e \in m.open THEN "open" ELSE "unknown"

\* the frame of one sensor fusion: the pose and every edge but the sensed
\* ones are unchanged, the diagonal readings do not matter, and a reading of
\* 1 records Wall
fusion_frame(gs, sensor_data) ==
    LET g == update_maze_with_sensors(gs, sensor_data)
    IN  /\ g.pose = gs.pose
        /\ g.maze.wall \ sensed_edges(gs) = gs.maze.wall \ sensed_edges(gs)
        /\ g.maze.open \ sensed_edges(gs) = gs.maze.open \ sensed_edges(gs)
        /\ \A other \in Readings :
              (other[1] = sensor_data[1] /\ other[3] = sensor_data[3]
               /\ other[5] = sensor_data[5])
              => update_maze_with_sensors(gs, other) = g
        /\ \A e \in sensed_edges(gs) :
              (<<e[1], e[2]>> = <<gs.pose.x, gs.pose.y>>
               /\ reading_of(gs, sensor_data, e[3]) = 1)
              => edge_state(g.maze, e) = "wall"

\* C19: sensor fusion changes wall knowledge only on the left, front and
\* right edges of the current cell and their mirrors, leaves the rear edge,
\* all other cells and the pose, does not depend on the diagonal readings,
\* and records Wall on a reading of 1 and Open on a reading of 0.
C19_SensorFusionFrame ==
    \A id \in DOMAIN GAMES : \A sensor_data \in Readings :
        /\ fusion_frame(GAMES[id], sensor_data)
        /\ \A e \in sensed_edges(GAMES[id]) :
              (<<e[1], e[2]>> = <<GAMES[id].pose.x, GAMES[id].pose.y>>
               /\ reading_of(GAMES[id], sensor_data, e[3]) = 0)
              => edge_state(update_maze_with_sensors(GAMES[id], sensor_data).maze, e)
                     = "open"

\* C19 as amended: as C19, but a reading of 0 records Open unless the edge
\* is recorded as Wall, and then the edge stays Wall.
C19_SensorFusionFrameAmended ==
    \A id \in DOMAIN GAMES : \A sensor_data \in Readings :
        /\ fusion_frame(GAMES[id], sensor_data)
        /\ \A e \in sensed_edges(GAMES[id]) :
              (<<e[1], e[2]>> = <<GAMES[id].pose.x, GAMES[id].pose.y>>
               /\ reading_of(GAMES[id], sensor_data, e[3]) = 0)
              => edge_state(update_maze_with_sensors(GAMES[id], sensor_data).maze, e)
                     = IF edge_state(GAMES[id].maze, e) = "wall" THEN "wall" ELSE "open"

\* the rear edge is recorded, the front edge is recorded as Wall and the
\* left edge as Open: a reading of 0 ahead meets a Wall, a reading of 1 to
\* the left meets an Open edge
C19_Witness ==
    \E id \in DOMAIN GAMES :
        LET gs == GAMES[id]
        IN  /\ <<gs.pose.x, gs.pose.y, (gs.pose.facing + 2) % 4>> \in gs.maze.wall \cup gs.maze.open
            /\ <<gs.pose.x, gs.pose.y, gs.pose.facing>> \in gs.maze.wall
            /\ <<gs.pose.x, gs.pose.y, (gs.pose.facing + 3) % 4>> \in gs.maze.open

\* C20: for a request whose sensor_data is missing, null, empty or not a
\* list of exactly 5 entries, handle_post completes the turn without
\* raising, returns a response and records no edge as Wall in that turn.
C20_MalformedSensorsTolerated ==
    \A id \in GameIds : \A body \in MalformedRequests(id) :
        LET r == handle_post(session(id), body)
        IN  /\ r.branch # "raised"
            /\ r.gs.maze.wall = session(id).maze.wall

(***************************************************************************)
(* Sessions                                                                *)
(***************************************************************************)
\* the requests and payloads the simulator may send to a session that does
\* not exist yet: the readings are those of the start pose
first_requests ==
    {[is_crashed |-> c, goal_reached |-> FALSE, run |-> 0, momentum |-> m,
      sensor_data |-> sensed(world, 0, 0, 0)] : c \in BOOLEAN, m \in SessionMomenta}
first_payloads ==
    {[momentum |-> m, sensor_data |-> sensed(world, 0, 0, 0)] : m \in SessionMomenta}

\* the ids whose stored state differs between a state and its successor
touched(before, after) ==
    {id \in DOMAIN after : id \notin DOMAIN before \/ after[id] # before[id]}

\* C21: sessions are isolated and created on demand: a turn for one id
\* leaves the stored state of every other id unchanged and removes none,
\* the state created for an unseen id is what the turn makes of a fresh
\* initial state, and a request for an unseen id is answered as the same
\* request on a fresh initial state is.
C21_SessionsIsolated ==
    /\ [](/\ \A id \in SessionIds \ DOMAIN GAMES : \A body \in first_requests :
               CONTROLLERS = <<>> =>
                   handle_post(session(id), body) = handle_post(GameState, body)
          /\ \A gid \in SessionIds \ DOMAIN CONTROLLERS : \A payload \in first_payloads :
               GAMES = <<>> =>
                   step(controller(gid), payload) = step(MouseState, payload))
    /\ [][/\ DOMAIN GAMES \subseteq DOMAIN GAMES'
          /\ DOMAIN CONTROLLERS \subseteq DOMAIN CONTROLLERS'
          /\ Cardinality(touched(GAMES, GAMES')) <= 1
          /\ Cardinality(touched(CONTROLLERS, CONTROLLERS')) <= 1
          /\ \A id \in DOMAIN GAMES' \ DOMAIN GAMES :
                 \E body \in first_requests :
                     GAMES'[id] = handle_post(GameState, body).gs
          /\ \A gid \in DOMAIN CONTROLLERS' \ DOMAIN CONTROLLERS :
                 \E payload \in first_payloads :
                     CONTROLLERS'[gid] = step(MouseState, payload).state]_vars

\* two sessions exist in different states
C21_Witness ==
    \/ DOMAIN GAMES = SessionIds /\ GAMES["a"] # GAMES["b"]
    \/ DOMAIN CONTROLLERS = SessionIds /\ CONTROLLERS["a"] # CONTROLLERS["b"]

\* the session state and the two responses when the request of worker t is
\* served to its end before that of worker u is begun
serial(t, u) ==
    LET first == step(MouseState, workers[t].payload)
        second == step(first.state, workers[u].payload)
    IN  [state |-> second.state, t |-> first.toks, u |-> second.toks]

\* C22: when two requests for one new game id have been processed
\* concurrently, the stored session state and the two responses are those
\* of one of the two serial orders.
C22_ConcurrentTurnsSerializable ==
    (\A t \in Workers : workers # <<>> /\ workers[t].pc = "done") =>
        \E t \in Workers : \E u \in Workers \ {t} :
            /\ CONTROLLERS[ConcurrentGid] = serial(t, u).state
            /\ workers[t].instr = serial(t, u).t
            /\ workers[u].instr = serial(t, u).u

(***************************************************************************)
(* Responses of MicroMouseController.step                                  *)
(***************************************************************************)
count_tokens(toks, tok) == Cardinality({i \in DOMAIN toks : toks[i] = tok})

\* the momentum the controller tracks when it starts to plan: the reported
\* one, clamped ("self.state.momentum = 1 if payload momentum > 0 else 0")
adopted_momentum(payload) == IF payload.momentum > 0 THEN 1 ELSE 0

Move(cell, dirc) == [from |-> cell, dir |-> dirc]

\* the move of _finish_if_goal on st: Case B moves to candidate_dirs[0]
finish_moves(st) ==
    IF /\ st.cell \in app_GOAL_CELLS
       /\ ~heading_points_into_goal(st.cell, st.heading)
       /\ candidate_dirs(st) # <<>>
    THEN <<Move(st.cell, candidate_dirs(st)[1])>> ELSE <<>>

\* the moves of the loop "for _ in range(stride)" with n iterations left
RECURSIVE stride_moves(_, _)
stride_moves(st, n) ==
    IF n = 0 THEN <<>>
    ELSE LET f == forward_one_cell(st)
             fin == finish_if_goal(f.state)
         IN  IF fin.toks # <<>> THEN <<Move(st.cell, st.heading)>> \o finish_moves(f.state)
             ELSE <<Move(st.cell, st.heading)>> \o stride_moves(fin.state, n - 1)

\* the moves of step on the controller state st, in order
step_moves(st, payload) ==
    LET s0 == [st EXCEPT !.momentum = IF payload.momentum > 0 THEN 1 ELSE 0]
        s1 == mark_sensed(s0, sensor_or_default(payload.sensor_data))
        desired == choose_next_dir(s1, compute_dist(s1))
    IN  IF finish_if_goal(s1).toks # <<>> THEN finish_moves(s1)
        ELSE IF desired = "None"
        THEN <<Move(s1.cell, app_BACK[s1.heading])>>
                 \o finish_moves(forward_one_cell(
                        rotate_to(s1, app_BACK[s1.heading]).state).state)
        ELSE LET turned == [s1 EXCEPT !.heading = desired]
             IN  stride_moves(turned, stride_of(turned))

\* the cell a sequence of moves ends in; each move starts where the last ended
RECURSIVE follow(_, _)
follow(cell, ms) ==
    IF ms = <<>> THEN cell
    ELSE IF ms[1].from # cell THEN <<-99, -99>>
    ELSE follow(neighbour_cell(cell, ms[1].dir), Tail(ms))

\* C25: every cell-to-cell move that step commits (the moves lead from the
\* tracked cell before the turn to the tracked cell after it) goes through
\* an edge that is not in the controller's wall set when the response is
\* produced.
C25_MovesAvoidKnownWalls ==
    \A gid \in ControllerIds : \A payload \in Payloads(gid) :
        LET r == step(controller(gid), payload)
            ms == step_moves(controller(gid), payload)
        IN  /\ follow(controller(gid).cell, ms) = r.state.cell
            /\ \A k \in 1 .. Len(ms) : ~has_wall(r.state, ms[k].from, ms[k].dir)

\* C26: in every reachable state of a controller the tracked cell lies
\* inside the grid [0,16) x [0,16).
C26_TrackedCellInGrid ==
    \A gid \in DOMAIN CONTROLLERS :
        app_in_bounds(CONTROLLERS[gid].cell[1], CONTROLLERS[gid].cell[2])

(***************************************************************************)
(* The heading changes a step commits                                      *)
(***************************************************************************)
\* a heading change and the rotation tokens emitted for it
Turn(from, to, toks) == [from |-> from, to |-> to, toks |-> toks]

\* the re-aim of _finish_if_goal on st (Case B)
finish_turns(st) ==
    IF /\ st.cell \in app_GOAL_CELLS
       /\ ~heading_points_into_goal(st.cell, st.heading)
       /\ candidate_dirs(st) # <<>>
    THEN <<Turn(st.heading, candidate_dirs(st)[1],
                turn_seq(st.heading, candidate_dirs(st)[1]))>>
    ELSE <<>>

RECURSIVE stride_turns(_, _)
stride_turns(st, n) ==
    IF n = 0 THEN <<>>
    ELSE LET f == forward_one_cell(st)
             fin == finish_if_goal(f.state)
         IN  IF fin.toks # <<>> THEN finish_turns(f.state)
             ELSE stride_turns(fin.state, n - 1)

\* the heading changes of step on the controller state st, in order
step_turns(st, payload) ==
    LET s0 == [st EXCEPT !.momentum = IF payload.momentum > 0 THEN 1 ELSE 0]
        s1 == mark_sensed(s0, sensor_or_default(payload.sensor_data))
        desired == choose_next_dir(s1, compute_dist(s1))
        target == IF desired = "None" THEN app_BACK[s1.heading] ELSE desired
        rot == rotate_to(s1, target)
    IN  IF finish_if_goal(s1).toks # <<>> THEN finish_turns(s1)
        ELSE (IF target # s1.heading
              THEN <<Turn(s1.heading, target, rot.toks)>> ELSE <<>>)
             \o (IF desired = "None"
                 THEN finish_turns(forward_one_cell(rot.state).state)
                 ELSE stride_turns(rot.state, stride_of(rot.state)))

\* quarter-turns clockwise from heading a to heading b
quarter_turns_cw(a, b) == (idx(b) - idx(a)) % 4

\* the rotation tokens that realise the change from a to b: two R for each
\* quarter-turn to the right, two L for each to the left, either for a
\* half-turn
realises(toks, a, b) ==
    LET cw == quarter_turns_cw(a, b)
    IN  CASE cw = 0 -> toks = <<>>
          [] cw = 1 -> toks = <<"R", "R">>
          [] cw = 2 -> toks \in {<<"R", "R", "R", "R">>, <<"L", "L", "L", "L">>}
          [] cw = 3 -> toks = <<"L", "L">>

is_rotation(tok) == tok \in {"L", "R"}

RECURSIVE all_turn_tokens(_)
all_turn_tokens(ts) ==
    IF ts = <<>> THEN <<>> ELSE ts[1].toks \o all_turn_tokens(Tail(ts))

\* the heading a sequence of turns ends in
RECURSIVE heading_after(_, _)
heading_after(h, ts) ==
    IF ts = <<>> THEN h
    ELSE IF ts[1].from # h THEN "?"
    ELSE heading_after(ts[1].to, Tail(ts))

\* C27: every change of the tracked heading in a response of step (the
\* changes lead from the heading before the turn to the heading after it,
\* and their tokens are the rotation tokens of the response) by k
\* quarter-turns comes with exactly 2k rotation tokens of one direction,
\* the direction of the change.
C27_RotationsRealiseHeading ==
    \A gid \in ControllerIds : \A payload \in Payloads(gid) :
        LET r == step(controller(gid), payload)
            ts == step_turns(controller(gid), payload)
        IN  /\ heading_after(controller(gid).heading, ts) = r.state.heading
            /\ SelectSeq(r.toks, is_rotation) = all_turn_tokens(ts)
            /\ \A k \in 1 .. Len(ts) : realises(ts[k].toks, ts[k].from, ts[k].to)

(***************************************************************************)
(* shortest_known_path                                                     *)
(***************************************************************************)
\* the edge of cell c toward d leads to a cell of the grid and is recorded
\* Open
open_edge(m, c, d) ==
    /\ in_bounds(c[1] + dx(d), c[2] + dy(d))
    /\ walls_at(m, c[1], c[2], d) = "open"

\* p is a path from start to a cell of goals over edges recorded Open
is_open_path(m, p, start, goals) ==
    /\ Len(p) >= 1 /\ p[1] = start /\ p[Len(p)] \in goals
    /\ \A i \in 1 .. Len(p) - 1 :
          \E d \in 0 .. 3 : /\ p[i + 1] = <<p[i][1] + dx(d), p[i][2] + dy(d)>>
                            /\ open_edge(m, p[i], d)

\* the number of edges of a shortest such path, -1 where there is none:
\* ring holds the cells at k edges from start, seen those within k
RECURSIVE open_distance(_, _, _, _, _)
open_distance(m, goals, seen, ring, k) ==
    IF ring \cap goals # {} THEN k
    ELSE IF ring = {} THEN -1
    ELSE LET across(c) == {<<c[1] + dx(d), c[2] + dy(d)>> :
                              d \in {e \in 0 .. 3 : open_edge(m, c, e)}}
             nxt == UNION {across(c) : c \in ring} \ seen
         IN  open_distance(m, goals, seen \cup nxt, nxt, k + 1)

\* C28: shortest_known_path returns a list of cells from start to a goal
\* cell whose consecutive cells are adjacent over an edge recorded Open, of
\* minimal length among such paths, and None exactly when there is none.
C28_ShortestKnownPath ==
    \A id \in DOMAIN GAMES :
        LET m == GAMES[id].maze
            start == <<GAMES[id].pose.x, GAMES[id].pose.y>>
            r == shortest_known_path(m, start, GOAL_CELLS)
            best == open_distance(m, GOAL_CELLS, {start}, {start}, 0)
        IN  /\ r.found <=> best >= 0
            /\ r.found => /\ is_open_path(m, r.path, start, GOAL_CELLS)
                          /\ Len(r.path) = best + 1

\* the shortest open path is a detour: it has more than the three cells of
\* a direct route, and the session has cached it
C28_Witness ==
    \E id \in DOMAIN GAMES :
        /\ <<GAMES[id].pose.x, GAMES[id].pose.y>> = <<5, 7>>
        /\ Len(GAMES[id].speed_path) = 5
        /\ GAMES[id].maze.wall # {}

(***************************************************************************)
(* _choose_next_dir                                                        *)
(***************************************************************************)
\* the rank of direction dirc for a robot heading h: straight, left, right,
\* reverse
app_turn_rank(dirc, h) ==
    CASE dirc = h -> 0
      [] dirc = app_LEFT[h] -> 1
      [] dirc = app_RIGHT[h] -> 2
      [] dirc = app_BACK[h] -> 3

\* the directions _choose_next_dir may select: the neighbour is in bounds
\* and no wall is recorded at the tracked cell toward it
selectable_dirs(st) ==
    {dirc \in {"N", "E", "S", "W"} :
        /\ app_in_bounds(st.cell[1] + VEC[dirc][1], st.cell[2] + VEC[dirc][2])
        /\ ~has_wall(st, st.cell, dirc)}

\* C29: among the selectable neighbours of minimal distance,
\* _choose_next_dir selects the current heading when it is one of them, and
\* otherwise left before right before reverse.
C29_TieBreakPrefersStraight ==
    \A gid \in ControllerIds : \A st \in planning_states(gid) :
        LET dist == compute_dist(st)
            c == choose_next_dir(st, dist)
        IN  selectable_dirs(st) # {} =>
              /\ c \in selectable_dirs(st)
              /\ \A e \in selectable_dirs(st) :
                    \/ dist[neighbour_cell(st.cell, c)] < dist[neighbour_cell(st.cell, e)]
                    \/ /\ dist[neighbour_cell(st.cell, c)] = dist[neighbour_cell(st.cell, e)]
                       /\ app_turn_rank(c, st.heading) <= app_turn_rank(e, st.heading)

(***************************************************************************)
(* Turning tokens of plan_step_toward                                      *)
(***************************************************************************)
\* the sessions plan_step_toward is called on (after the sensor update of a
\* turn that takes the exploring branch outside the goal), with the
\* direction chosen: <<gs, next_dir, response>>
planned_steps(id) ==
    {<<turn_state(session(id), body),
       choose_next_cell(turn_state(session(id), body),
                        compute_distance_field(turn_state(session(id), body).maze))[3],
       handle_post(session(id), body)>> :
        body \in {b \in Requests(id) :
                     handle_post(session(id), b).branch = "explore_step"}}

\* toks occur in instr as consecutive tokens
occurs_in(toks, instr) ==
    \E k \in 0 .. Len(instr) - Len(toks) : SubSeq(instr, k + 1, k + Len(toks)) = toks

\* the turning tokens that realise the change from facing f to facing d
turning_tokens(f, d) ==
    CASE d = LEFT[f + 1] -> <<"F1LW">>
      [] d = RIGHT[f + 1] -> <<"F1RW">>
      [] d = BACK[f + 1] -> <<"R", "R", "R", "R">>
      [] d = f -> <<>>

\* C30: for a starting momentum in [0,4], plan_step_toward emits a moving
\* corner (F1LW, F1RW) only at a simulated momentum of at most 2 and an
\* in-place rotation (L, R) only at simulated momentum 0; and when the turn
\* changes the session's facing the response holds the turning tokens that
\* realise the change.
C30_TurnsAtLegalMomentum ==
    \A id \in GameIds : \A ps \in planned_steps(id) :
        LET gs == ps[1]
            plan == plan_step_toward(gs, ps[2]).instr
            m(k) == momentum_after(gs.pose.momentum, plan, k)
        IN  /\ \A k \in 1 .. Len(plan) :
                  /\ plan[k] \in {"F1LW", "F1RW"} => m(k - 1) <= 2
                  /\ plan[k] \in {"L", "R"} => m(k - 1) = 0
            /\ ps[3].gs.pose.facing # gs.pose.facing =>
                  occurs_in(turning_tokens(gs.pose.facing, ps[3].gs.pose.facing),
                            ps[3].instructions)

\* a session reverses out of a dead end at reported momentum 4, and a
\* session takes a corner at reported momentum 3
C30_Witness ==
    \E id \in GameIds :
        \/ \E ps \in planned_steps(id) :
              /\ ps[1].pose.momentum = 4
              /\ ps[2] = BACK[ps[1].pose.facing + 1]
              /\ occurs_in(<<"R", "R", "R", "R">>, ps[3].instructions)
        \/ \E ps \in planned_steps(id) :
              /\ ps[1].pose.momentum = 3
              /\ ps[2] = RIGHT[ps[1].pose.facing + 1]
              /\ occurs_in(<<"BB", "F1RW">>, ps[3].instructions)

(***************************************************************************)
(* Properties of smallest_pal_after_k_deletions                            *)
(***************************************************************************)
\* the characters of s at the kept positions, in order
RECURSIVE subsequence(_, _)
subsequence(s, kept) ==
    IF s = <<>> THEN <<>>
    ELSE LET front == subsequence(SubSeq(s, 1, Len(s) - 1), kept)
         IN  IF Len(s) \in kept THEN Append(front, s[Len(s)]) ELSE front

is_pal(x) == \A h \in 1..Len(x) : x[h] = x[Len(x) + 1 - h]

\* the palindromes left of s by deleting at most K of its characters
obtainable_palindromes(s, K) ==
    {p \in {subsequence(s, kept) :
              kept \in {q \in SUBSET (1..Len(s)) : Len(s) - Cardinality(q) <= K}} :
       is_pal(p)}

\* C31: for every string s and budget K >= 0, the result of
\* smallest_pal_after_k_deletions(s, K) is one of the palindromes obtainable
\* from s by deleting at most K characters, and none of them is
\* lexicographically smaller.
C31_SmallestObtainablePalindrome ==
    call.fn = "smallest_pal_after_k_deletions" =>
        LET P == obtainable_palindromes(call.s, call.K)
        IN  P # {} =>
                /\ call.result \in P
                /\ \A p \in P : ~str_lt(p, call.result)

(***************************************************************************)
(* Properties of turn_in_place_tokens                                      *)
(***************************************************************************)
rotation_tokens == {"L", "R"}

\* C32: for every momentum m >= 0 and budget max_tokens >= 1, the result of
\* turn_in_place_tokens has at most max_tokens tokens, all of them BB or F0
\* except possibly a rotation in the last place; the momentum, followed
\* through the tokens with BB -2 and F0 -1, never goes below 0; a rotation
\* is there only when the tokens before it bring the momentum from m to
\* exactly 0, and none is there when the momentum left after the brake
\* tokens is above 0.
C32_NeverTurnsWhileMoving ==
    call.fn = "turn_in_place_tokens" =>
        LET toks == call.result
            brakes == Cardinality({k \in 1..Len(toks) : toks[k] \notin rotation_tokens})
        IN  /\ Len(toks) <= call.max_tokens
            /\ \A k \in 1..Len(toks) :
                   /\ momentum_after(call.m, toks, k) >= 0
                   /\ IF toks[k] \in rotation_tokens
                      THEN k = Len(toks) /\ momentum_after(call.m, toks, k - 1) = 0
                      ELSE toks[k] \in {"BB", "F0"}
            /\ momentum_after(call.m, toks, brakes) > 0 =>
                   \A k \in 1..Len(toks) : toks[k] \notin rotation_tokens

\* a turn from momentum 3 or more that brakes with BB and with F0 and then
\* rotates
C32_Witness ==
    /\ call.fn = "turn_in_place_tokens"
    /\ call.m >= 3
    /\ Len(call.result) >= 3
    /\ call.result[Len(call.result)] \in rotation_tokens
    /\ \E k \in 1..Len(call.result) : call.result[k] = "F0"

\* a turn whose budget runs out while the robot still moves: no rotation
C32_WitnessBudgetExhausted ==
    /\ call.fn = "turn_in_place_tokens"
    /\ Len(call.result) = call.max_tokens
    /\ momentum_after(call.m, call.result, Len(call.result)) > 0
    /\ \A k \in 1..Len(call.result) : call.result[k] \notin rotation_tokens

=============================================================================
